---------------------------- MODULE Spec2Model ----------------------------
(***************************************************************************)
(* A model of pokem (arcuru/pokem): the room configuration store kept in   *)
(* room tags, the authentication validator, the delivery pipeline          *)
(* ping_room, the HTTP handler and the chat commands.                      *)
(*                                                                         *)
(* Strings are sequences of one-character strings, so that starts_with,    *)
(* trim_start_matches and trim_start are computed the way str computes     *)
(* them.  Option<T> is a sequence of length 0 (None) or 1 (Some(x)).       *)
(*                                                                         *)
(* The handlers are async and hold no lock: a step of the model is what a  *)
(* task does up to and including one `.await` on the room (a read of the   *)
(* tags, a set_tag or remove_tag, a send), and the steps of two tasks      *)
(* interleave.  A read of the tags may fail and is swallowed by            *)
(* unwrap_or_default; a failing set_tag or remove_tag is unwrapped and the *)
(* task panics; a failing send is `expect`ed by the chat side and panics,  *)
(* and is returned as an error by ping_room.                               *)
(***************************************************************************)
EXTENDS Integers, Sequences, FiniteSets, TLC

VARIABLES
    tags,       \* per room: the set of tag names stored for the room
    room,       \* chat side: the room the command or callback was given
    op,         \* store history: the store call that ended last, "none" |
                \* "set" | "set panicked" | "get" | "get, read failed" |
                \* "get panicked"
    arg,        \* store history: the RoomConfig given to the last set
    ret,        \* store history: the RoomConfig returned by the last get
    before,     \* store history: the room's tags when that call began
    direct,     \* store history: the number of store calls made directly
    va_pc,      \* validator: "off" | "input" | "validated" | "revalidated"
    va_config,  \* validator: the room_config argument
    va_headers, \* validator: the headers argument
    va_msg,     \* validator: the msg argument
    va_result,  \* validator: Result of validate_authentication on the inputs
    va_again,   \* validator: Result of validating the returned message again
    roomState,  \* per room: RoomState of the client's room, "Joined" | "Invited"
    members,    \* per room: number of active members
    reply,      \* chat side: the messages sent since the last command or
                \* callback was received, in order
    p_pc,       \* ping_room: "off" | the stage the delivery is in | "Returned"
    p_name,     \* ping_room: the room_id argument
    p_headers,  \* ping_room: the headers argument
    p_message,  \* ping_room: the message argument
    p_mention,  \* ping_room: the mention_room argument
    p_room,     \* ping_room: r, the resolved room (Option)
    p_delay,    \* ping_room: delay, in seconds
    p_slept,    \* ping_room: seconds slept so far in the join-wait
    p_msg,      \* ping_room: msg, the message after the auth gate
    p_seen,     \* ping_room: the tags can_message_room was handed (Option)
    p_allowed,  \* ping_room: what can_message_room returned
    p_result,   \* ping_room: "none" | "Ok" | the error returned
    sent,       \* ping_room: the message r.send submitted to the room (Option)
    h_pc,       \* daemon_poke: "off" | "Accepted" | "Collecting" | "Routing" | "Pinging" | "Responded" | "Panicked" | ErrCollect | ErrUtf8
    h_req,      \* daemon_poke: the request (method, path, query, headers, body)
    h_rooms,    \* daemon_poke: rooms, the nickname table (Option of a map)
    h_poke,     \* daemon_poke: poke_request as from_request returned it (Option)
    h_resp,     \* daemon_poke: the Response returned (Option)
    w_pc,       \* per task: the await it stands at, or how it ended
    w_cmd,      \* per task: the command message or callback it handles, if any
    w_resp,     \* per task: the reply its handler is about to send
    w_seen,     \* per task: the tags its can_message_room was handed (Option)
    w_in,       \* per task: the store function it is in, "set" | "get" |
                \* "get, read failed"
    w_config,   \* per task: the config set_room_config was given, or the
                \* config get_room_config has read
    w_todo,     \* per task: the tag calls its set_room_config has still to make
    w_calls,    \* per task: the tag calls its store call has completed
    w_before,   \* per task: the room's tags when its store call began
    w_overlap,  \* history: a store call has acted while another was under way
    read_err    \* history: a read of the tags has failed

histVars == <<op, arg, ret, before>>
storeVars == <<room, direct, op, arg, ret, before>>
authVars == <<va_pc, va_config, va_headers, va_msg, va_result, va_again>>
deliveryVars == <<p_pc, p_name, p_headers, p_message, p_mention, p_room,
                  p_delay, p_slept, p_msg, p_seen, p_allowed, p_result, sent>>
pingVars == <<roomState, members, reply, deliveryVars>>
httpVars == <<h_pc, h_req, h_rooms, h_poke, h_resp>>
handlerVars == <<w_cmd, w_resp, w_seen>>
callRest == <<w_in, w_config, w_todo, w_calls, w_before, w_overlap>>
callVars == <<callRest, read_err>>
taskVars == <<w_pc, handlerVars, callVars>>
vars == <<tags, storeVars, authVars, pingVars, httpVars, taskVars>>

---------------------------------------------------------------------------
(* Bounds of the model.                                                    *)

\* longest plain token (the part after any reserved prefix)
MaxTokLen == 1
\* most tags a room holds initially
MaxTags == 2
\* longest message given to the validator
MaxMsgLen == 3
\* the configured room_size_limit of the deployment
RoomSizeLimit == 2

\* most store calls made one after another on a room
MaxDirect == 2

---------------------------------------------------------------------------
(* Option<T>                                                               *)

None == <<>>
Some(x) == <<x>>
IsSome(o) == o # <<>>
Unwrap(o) == o[1]

---------------------------------------------------------------------------
(* Strings                                                                 *)

\* A string is a sequence of characters. The characters of ASCII stand for
\* themselves; a character outside ASCII, or one a TLA+ string cannot hold
\* (a control character without an escape, the grave accent U+0060), is
\* named "U+" and its code point in hexadecimal.
AsciiVisible ==
    <<" ","!","\"","#","$","%","&","'","(",")","*","+",",","-",".","/",
      "0","1","2","3","4","5","6","7","8","9",":",";","<","=",">","?",
      "@","A","B","C","D","E","F","G","H","I","J","K","L","M","N","O",
      "P","Q","R","S","T","U","V","W","X","Y","Z","[","\\","]","^","_",
      "U+0060","a","b","c","d","e","f","g","h","i","j","k","l","m","n","o",
      "p","q","r","s","t","u","v","w","x","y","z","{","|","}","~">>

HexDigits == <<"0","1","2","3","4","5","6","7","8","9","A","B","C","D","E","F">>

\* the hexadecimal numeral of n
RECURSIVE HexNumeral(_)
HexNumeral(n) ==
    IF n < 16 THEN HexDigits[n + 1]
    ELSE HexNumeral(n \div 16) \o HexDigits[(n % 16) + 1]

\* the character of a code point
CodePointChar(cp) ==
    IF cp \in 32..126 THEN AsciiVisible[cp - 31]
    ELSE IF cp = 9 THEN "\t"
    ELSE IF cp = 10 THEN "\n"
    ELSE IF cp = 12 THEN "\f"
    ELSE IF cp = 13 THEN "\r"
    ELSE "U+" \o (IF cp < 16 THEN "000" ELSE IF cp < 256 THEN "00"
                  ELSE IF cp < 4096 THEN "0" ELSE "") \o HexNumeral(cp)

\* characters outside ASCII that the inputs of the model hold
NoBreakSpace == "U+00A0"
EAcute == "U+00E9"
EmojiWarning == "U+26A0"
Replacement == "U+FFFD"
EmojiSkull == "U+1F480"

\* the code points of the characters an input of the model may hold: all of
\* ASCII and the five characters above
InputCodePoints == 0..127 \cup {160, 233, 9888, 65533, 128128}

\* The code point of a character (String and TagName order by bytes, which
\* in UTF-8 is the order of the code points).
CharCode ==
    [c \in {CodePointChar(cp) : cp \in InputCodePoints} |->
        CHOOSE cp \in InputCodePoints : CodePointChar(cp) = c]

\* char::encode_utf8: the bytes of a code point
Utf8Bytes(cp) ==
    IF cp < 128 THEN <<cp>>
    ELSE IF cp < 2048 THEN <<192 + (cp \div 64), 128 + (cp % 64)>>
    ELSE IF cp < 65536
         THEN <<224 + (cp \div 4096), 128 + ((cp \div 64) % 64), 128 + (cp % 64)>>
    ELSE <<240 + (cp \div 262144), 128 + ((cp \div 4096) % 64),
           128 + ((cp \div 64) % 64), 128 + (cp % 64)>>

\* the byte 0xFF standing alone in a byte string (a header value, a request
\* body): no UTF-8 sequence holds it
HighByte == "0xFF"

\* the bytes of one element of a byte string
CharBytes(c) == IF c = HighByte THEN <<255>> ELSE Utf8Bytes(CharCode[c])

\* str::as_bytes, and the bytes of a byte string
RECURSIVE StrBytes(_)
StrBytes(s) == IF s = <<>> THEN <<>> ELSE CharBytes(Head(s)) \o StrBytes(Tail(s))

\* Utf8 well-formedness (core::str::validations): the length of the sequence
\* a first byte opens, 0 for a byte that opens none
Utf8Width(b) ==
    IF b < 128 THEN 1
    ELSE IF b \in 194..223 THEN 2
    ELSE IF b \in 224..239 THEN 3
    ELSE IF b \in 240..244 THEN 4
    ELSE 0

\* the second bytes a first byte admits
Utf8Second(b) ==
    IF b = 224 THEN 160..191
    ELSE IF b = 237 THEN 128..159
    ELSE IF b = 240 THEN 144..191
    ELSE IF b = 244 THEN 128..143
    ELSE 128..191

\* how many bytes at the head of bs follow the pattern of the sequence the
\* first byte opens (at least 1)
Utf8Matched(bs) ==
    LET w == Utf8Width(bs[1])
    IN  IF w < 2 \/ Len(bs) < 2 \/ bs[2] \notin Utf8Second(bs[1]) THEN 1
        ELSE IF w < 3 \/ Len(bs) < 3 \/ bs[3] \notin 128..191 THEN 2
        ELSE IF w < 4 \/ Len(bs) < 4 \/ bs[4] \notin 128..191 THEN 3
        ELSE 4

\* whether bs starts with a complete well-formed sequence
Utf8Valid(bs) == Utf8Width(bs[1]) > 0 /\ Utf8Matched(bs) = Utf8Width(bs[1])

\* the code point of the well-formed sequence at the head of bs
Utf8CodePoint(bs) ==
    LET w == Utf8Width(bs[1])
    IN  IF w = 1 THEN bs[1]
        ELSE IF w = 2 THEN (bs[1] - 192) * 64 + (bs[2] - 128)
        ELSE IF w = 3
             THEN (bs[1] - 224) * 4096 + (bs[2] - 128) * 64 + (bs[3] - 128)
        ELSE (bs[1] - 240) * 262144 + (bs[2] - 128) * 4096
                 + (bs[3] - 128) * 64 + (bs[4] - 128)

\* run_utf8_validation: every byte belongs to a well-formed sequence
RECURSIVE Utf8WellFormed(_)
Utf8WellFormed(bs) ==
    \/ bs = <<>>
    \/ Utf8Valid(bs) /\ Utf8WellFormed(SubSeq(bs, Utf8Matched(bs) + 1, Len(bs)))

\* String::from_utf8_lossy: the characters of the well-formed sequences,
\* and one U+FFFD for every maximal ill-formed run of bytes that could
\* start a sequence
RECURSIVE from_utf8_lossy(_)
from_utf8_lossy(bs) ==
    IF bs = <<>> THEN <<>>
    ELSE <<IF Utf8Valid(bs) THEN CodePointChar(Utf8CodePoint(bs)) ELSE Replacement>>
             \o from_utf8_lossy(SubSeq(bs, Utf8Matched(bs) + 1, Len(bs)))

\* String::from_utf8: the characters of the bytes, Err (None) when the bytes
\* are not well-formed UTF-8
from_utf8(bs) == IF Utf8WellFormed(bs) THEN Some(from_utf8_lossy(bs)) ELSE None

\* every string over the alphabet cs of length at most n
RECURSIVE Str(_, _)
Str(cs, n) ==
    IF n = 0 THEN {<<>>}
    ELSE LET shorter == Str(cs, n - 1)
         IN  shorter \cup {Append(s, c) : s \in shorter, c \in cs}

\* str::starts_with
starts_with(s, p) == Len(p) <= Len(s) /\ SubSeq(s, 1, Len(p)) = p

\* str::trim_start_matches: removes EVERY leading repetition of the pattern;
\* the empty pattern removes nothing.
RECURSIVE trim_start_matches(_, _)
trim_start_matches(s, p) ==
    IF p # <<>> /\ starts_with(s, p)
    THEN trim_start_matches(SubSeq(s, Len(p) + 1, Len(s)), p)
    ELSE s

\* char::is_whitespace: the characters of the property White_Space
Whitespace ==
    {CodePointChar(cp) :
        cp \in 9..13 \cup {32, 133, 160, 5760} \cup 8192..8202
                \cup {8232, 8233, 8239, 8287, 12288}}

\* str::trim_start
RECURSIVE trim_start(_)
trim_start(s) ==
    IF s # <<>> /\ s[1] \in Whitespace THEN trim_start(Tail(s)) ELSE s

\* Ord for String / TagName: lexicographic by bytes
RECURSIVE LexLess(_, _)
LexLess(s, t) ==
    IF s = <<>> THEN t # <<>>
    ELSE IF t = <<>> THEN FALSE
    ELSE IF s[1] = t[1] THEN LexLess(Tail(s), Tail(t))
    ELSE CharCode[s[1]] < CharCode[t[1]]

---------------------------------------------------------------------------
(* Letter case: str::to_lowercase of the standard library, which          *)
(* src/daemon.rs and src/utils.rs call on query keys, priority names,      *)
(* formats and the values of `set`.  The tables are those of Unicode       *)
(* 17.0, as runs of code points.                                           *)

\* core::unicode::conversions::to_lower: <<first, last, step, lower of first>>
\* stands for the code points first, first + step, .. last, each mapped as
\* far from itself as first is
LowerRanges ==
    {
     <<65, 90, 1, 97>>, <<192, 214, 1, 224>>, <<216, 222, 1, 248>>,
     <<256, 302, 2, 257>>, <<306, 310, 2, 307>>, <<313, 327, 2, 314>>,
     <<330, 374, 2, 331>>, <<376, 376, 1, 255>>, <<377, 381, 2, 378>>,
     <<385, 385, 1, 595>>, <<386, 388, 2, 387>>, <<390, 390, 1, 596>>,
     <<391, 391, 1, 392>>, <<393, 394, 1, 598>>, <<395, 395, 1, 396>>,
     <<398, 398, 1, 477>>, <<399, 399, 1, 601>>, <<400, 400, 1, 603>>,
     <<401, 401, 1, 402>>, <<403, 403, 1, 608>>, <<404, 404, 1, 611>>,
     <<406, 406, 1, 617>>, <<407, 407, 1, 616>>, <<408, 408, 1, 409>>,
     <<412, 412, 1, 623>>, <<413, 413, 1, 626>>, <<415, 415, 1, 629>>,
     <<416, 420, 2, 417>>, <<422, 422, 1, 640>>, <<423, 423, 1, 424>>,
     <<425, 425, 1, 643>>, <<428, 428, 1, 429>>, <<430, 430, 1, 648>>,
     <<431, 431, 1, 432>>, <<433, 434, 1, 650>>, <<435, 437, 2, 436>>,
     <<439, 439, 1, 658>>, <<440, 440, 1, 441>>, <<444, 444, 1, 445>>,
     <<452, 452, 1, 454>>, <<453, 453, 1, 454>>, <<455, 455, 1, 457>>,
     <<456, 456, 1, 457>>, <<458, 458, 1, 460>>, <<459, 475, 2, 460>>,
     <<478, 494, 2, 479>>, <<497, 497, 1, 499>>, <<498, 500, 2, 499>>,
     <<502, 502, 1, 405>>, <<503, 503, 1, 447>>, <<504, 542, 2, 505>>,
     <<544, 544, 1, 414>>, <<546, 562, 2, 547>>, <<570, 570, 1, 11365>>,
     <<571, 571, 1, 572>>, <<573, 573, 1, 410>>, <<574, 574, 1, 11366>>,
     <<577, 577, 1, 578>>, <<579, 579, 1, 384>>, <<580, 580, 1, 649>>,
     <<581, 581, 1, 652>>, <<582, 590, 2, 583>>, <<880, 882, 2, 881>>,
     <<886, 886, 1, 887>>, <<895, 895, 1, 1011>>, <<902, 902, 1, 940>>,
     <<904, 906, 1, 941>>, <<908, 908, 1, 972>>, <<910, 911, 1, 973>>,
     <<913, 929, 1, 945>>, <<932, 939, 1, 964>>, <<975, 975, 1, 983>>,
     <<984, 1006, 2, 985>>, <<1012, 1012, 1, 952>>, <<1015, 1015, 1, 1016>>,
     <<1017, 1017, 1, 1010>>, <<1018, 1018, 1, 1019>>, <<1021, 1023, 1, 891>>,
     <<1024, 1039, 1, 1104>>, <<1040, 1071, 1, 1072>>, <<1120, 1152, 2, 1121>>,
     <<1162, 1214, 2, 1163>>, <<1216, 1216, 1, 1231>>, <<1217, 1229, 2, 1218>>,
     <<1232, 1326, 2, 1233>>, <<1329, 1366, 1, 1377>>, <<4256, 4293, 1, 11520>>,
     <<4295, 4295, 1, 11559>>, <<4301, 4301, 1, 11565>>, <<5024, 5103, 1, 43888>>,
     <<5104, 5109, 1, 5112>>, <<7305, 7305, 1, 7306>>, <<7312, 7354, 1, 4304>>,
     <<7357, 7359, 1, 4349>>, <<7680, 7828, 2, 7681>>, <<7838, 7838, 1, 223>>,
     <<7840, 7934, 2, 7841>>, <<7944, 7951, 1, 7936>>, <<7960, 7965, 1, 7952>>,
     <<7976, 7983, 1, 7968>>, <<7992, 7999, 1, 7984>>, <<8008, 8013, 1, 8000>>,
     <<8025, 8031, 2, 8017>>, <<8040, 8047, 1, 8032>>, <<8072, 8079, 1, 8064>>,
     <<8088, 8095, 1, 8080>>, <<8104, 8111, 1, 8096>>, <<8120, 8121, 1, 8112>>,
     <<8122, 8123, 1, 8048>>, <<8124, 8124, 1, 8115>>, <<8136, 8139, 1, 8050>>,
     <<8140, 8140, 1, 8131>>, <<8152, 8153, 1, 8144>>, <<8154, 8155, 1, 8054>>,
     <<8168, 8169, 1, 8160>>, <<8170, 8171, 1, 8058>>, <<8172, 8172, 1, 8165>>,
     <<8184, 8185, 1, 8056>>, <<8186, 8187, 1, 8060>>, <<8188, 8188, 1, 8179>>,
     <<8486, 8486, 1, 969>>, <<8490, 8490, 1, 107>>, <<8491, 8491, 1, 229>>,
     <<8498, 8498, 1, 8526>>, <<8544, 8559, 1, 8560>>, <<8579, 8579, 1, 8580>>,
     <<9398, 9423, 1, 9424>>, <<11264, 11311, 1, 11312>>, <<11360, 11360, 1, 11361>>,
     <<11362, 11362, 1, 619>>, <<11363, 11363, 1, 7549>>, <<11364, 11364, 1, 637>>,
     <<11367, 11371, 2, 11368>>, <<11373, 11373, 1, 593>>, <<11374, 11374, 1, 625>>,
     <<11375, 11375, 1, 592>>, <<11376, 11376, 1, 594>>, <<11378, 11378, 1, 11379>>,
     <<11381, 11381, 1, 11382>>, <<11390, 11391, 1, 575>>, <<11392, 11490, 2, 11393>>,
     <<11499, 11501, 2, 11500>>, <<11506, 11506, 1, 11507>>, <<42560, 42604, 2, 42561>>,
     <<42624, 42650, 2, 42625>>, <<42786, 42798, 2, 42787>>, <<42802, 42862, 2, 42803>>,
     <<42873, 42875, 2, 42874>>, <<42877, 42877, 1, 7545>>, <<42878, 42886, 2, 42879>>,
     <<42891, 42891, 1, 42892>>, <<42893, 42893, 1, 613>>, <<42896, 42898, 2, 42897>>,
     <<42902, 42920, 2, 42903>>, <<42922, 42922, 1, 614>>, <<42923, 42923, 1, 604>>,
     <<42924, 42924, 1, 609>>, <<42925, 42925, 1, 620>>, <<42926, 42926, 1, 618>>,
     <<42928, 42928, 1, 670>>, <<42929, 42929, 1, 647>>, <<42930, 42930, 1, 669>>,
     <<42931, 42931, 1, 43859>>, <<42932, 42946, 2, 42933>>, <<42948, 42948, 1, 42900>>,
     <<42949, 42949, 1, 642>>, <<42950, 42950, 1, 7566>>, <<42951, 42953, 2, 42952>>,
     <<42955, 42955, 1, 612>>, <<42956, 42970, 2, 42957>>, <<42972, 42972, 1, 411>>,
     <<42997, 42997, 1, 42998>>, <<65313, 65338, 1, 65345>>, <<66560, 66599, 1, 66600>>,
     <<66736, 66771, 1, 66776>>, <<66928, 66938, 1, 66967>>, <<66940, 66954, 1, 66979>>,
     <<66956, 66962, 1, 66995>>, <<66964, 66965, 1, 67003>>, <<68736, 68786, 1, 68800>>,
     <<68944, 68965, 1, 68976>>, <<71840, 71871, 1, 71872>>, <<93760, 93791, 1, 93792>>,
     <<93856, 93880, 1, 93883>>, <<125184, 125217, 1, 125218>>}

LowerPairs ==
    UNION {{<<CodePointChar(r[1] + k * r[3]), CodePointChar(r[4] + k * r[3])>> :
               k \in 0..((r[2] - r[1]) \div r[3])} : r \in LowerRanges}

LowerTable ==
    [c \in {p[1] : p \in LowerPairs} |-> (CHOOSE p \in LowerPairs : p[1] = c)[2]]

\* char::to_lowercase of a character whose lower case is one character
LowerChar(c) == IF c \in DOMAIN LowerTable THEN LowerTable[c] ELSE c

\* core::unicode::Case_Ignorable: <<first, last>> stands for first..last
CaseIgnorableRanges ==
    {
     <<39, 39>>, <<46, 46>>, <<58, 58>>, <<94, 94>>, <<96, 96>>,
     <<168, 168>>, <<173, 173>>, <<175, 175>>, <<180, 180>>, <<183, 184>>,
     <<688, 879>>, <<884, 885>>, <<890, 890>>, <<900, 901>>, <<903, 903>>,
     <<1155, 1161>>, <<1369, 1369>>, <<1375, 1375>>, <<1425, 1469>>, <<1471, 1471>>,
     <<1473, 1474>>, <<1476, 1477>>, <<1479, 1479>>, <<1524, 1524>>, <<1536, 1541>>,
     <<1552, 1562>>, <<1564, 1564>>, <<1600, 1600>>, <<1611, 1631>>, <<1648, 1648>>,
     <<1750, 1757>>, <<1759, 1768>>, <<1770, 1773>>, <<1807, 1807>>, <<1809, 1809>>,
     <<1840, 1866>>, <<1958, 1968>>, <<2027, 2037>>, <<2042, 2042>>, <<2045, 2045>>,
     <<2070, 2093>>, <<2137, 2139>>, <<2184, 2184>>, <<2192, 2193>>, <<2199, 2207>>,
     <<2249, 2306>>, <<2362, 2362>>, <<2364, 2364>>, <<2369, 2376>>, <<2381, 2381>>,
     <<2385, 2391>>, <<2402, 2403>>, <<2417, 2417>>, <<2433, 2433>>, <<2492, 2492>>,
     <<2497, 2500>>, <<2509, 2509>>, <<2530, 2531>>, <<2558, 2558>>, <<2561, 2562>>,
     <<2620, 2620>>, <<2625, 2626>>, <<2631, 2632>>, <<2635, 2637>>, <<2641, 2641>>,
     <<2672, 2673>>, <<2677, 2677>>, <<2689, 2690>>, <<2748, 2748>>, <<2753, 2757>>,
     <<2759, 2760>>, <<2765, 2765>>, <<2786, 2787>>, <<2810, 2815>>, <<2817, 2817>>,
     <<2876, 2876>>, <<2879, 2879>>, <<2881, 2884>>, <<2893, 2893>>, <<2901, 2902>>,
     <<2914, 2915>>, <<2946, 2946>>, <<3008, 3008>>, <<3021, 3021>>, <<3072, 3072>>,
     <<3076, 3076>>, <<3132, 3132>>, <<3134, 3136>>, <<3142, 3144>>, <<3146, 3149>>,
     <<3157, 3158>>, <<3170, 3171>>, <<3201, 3201>>, <<3260, 3260>>, <<3263, 3263>>,
     <<3270, 3270>>, <<3276, 3277>>, <<3298, 3299>>, <<3328, 3329>>, <<3387, 3388>>,
     <<3393, 3396>>, <<3405, 3405>>, <<3426, 3427>>, <<3457, 3457>>, <<3530, 3530>>,
     <<3538, 3540>>, <<3542, 3542>>, <<3633, 3633>>, <<3636, 3642>>, <<3654, 3662>>,
     <<3761, 3761>>, <<3764, 3772>>, <<3782, 3782>>, <<3784, 3790>>, <<3864, 3865>>,
     <<3893, 3893>>, <<3895, 3895>>, <<3897, 3897>>, <<3953, 3966>>, <<3968, 3972>>,
     <<3974, 3975>>, <<3981, 3991>>, <<3993, 4028>>, <<4038, 4038>>, <<4141, 4144>>,
     <<4146, 4151>>, <<4153, 4154>>, <<4157, 4158>>, <<4184, 4185>>, <<4190, 4192>>,
     <<4209, 4212>>, <<4226, 4226>>, <<4229, 4230>>, <<4237, 4237>>, <<4253, 4253>>,
     <<4348, 4348>>, <<4957, 4959>>, <<5906, 5908>>, <<5938, 5939>>, <<5970, 5971>>,
     <<6002, 6003>>, <<6068, 6069>>, <<6071, 6077>>, <<6086, 6086>>, <<6089, 6099>>,
     <<6103, 6103>>, <<6109, 6109>>, <<6155, 6159>>, <<6211, 6211>>, <<6277, 6278>>,
     <<6313, 6313>>, <<6432, 6434>>, <<6439, 6440>>, <<6450, 6450>>, <<6457, 6459>>,
     <<6679, 6680>>, <<6683, 6683>>, <<6742, 6742>>, <<6744, 6750>>, <<6752, 6752>>,
     <<6754, 6754>>, <<6757, 6764>>, <<6771, 6780>>, <<6783, 6783>>, <<6823, 6823>>,
     <<6832, 6877>>, <<6880, 6891>>, <<6912, 6915>>, <<6964, 6964>>, <<6966, 6970>>,
     <<6972, 6972>>, <<6978, 6978>>, <<7019, 7027>>, <<7040, 7041>>, <<7074, 7077>>,
     <<7080, 7081>>, <<7083, 7085>>, <<7142, 7142>>, <<7144, 7145>>, <<7149, 7149>>,
     <<7151, 7153>>, <<7212, 7219>>, <<7222, 7223>>, <<7288, 7293>>, <<7376, 7378>>,
     <<7380, 7392>>, <<7394, 7400>>, <<7405, 7405>>, <<7412, 7412>>, <<7416, 7417>>,
     <<7468, 7530>>, <<7544, 7544>>, <<7579, 7679>>, <<8125, 8125>>, <<8127, 8129>>,
     <<8141, 8143>>, <<8157, 8159>>, <<8173, 8175>>, <<8189, 8190>>, <<8203, 8207>>,
     <<8216, 8217>>, <<8228, 8228>>, <<8231, 8231>>, <<8234, 8238>>, <<8288, 8292>>,
     <<8294, 8303>>, <<8305, 8305>>, <<8319, 8319>>, <<8336, 8348>>, <<8400, 8432>>,
     <<11388, 11389>>, <<11503, 11505>>, <<11631, 11631>>, <<11647, 11647>>, <<11744, 11775>>,
     <<11823, 11823>>, <<12293, 12293>>, <<12330, 12333>>, <<12337, 12341>>, <<12347, 12347>>,
     <<12441, 12446>>, <<12540, 12542>>, <<40981, 40981>>, <<42232, 42237>>, <<42508, 42508>>,
     <<42607, 42610>>, <<42612, 42621>>, <<42623, 42623>>, <<42652, 42655>>, <<42736, 42737>>,
     <<42752, 42785>>, <<42864, 42864>>, <<42888, 42890>>, <<42993, 42996>>, <<43000, 43001>>,
     <<43010, 43010>>, <<43014, 43014>>, <<43019, 43019>>, <<43045, 43046>>, <<43052, 43052>>,
     <<43204, 43205>>, <<43232, 43249>>, <<43263, 43263>>, <<43302, 43309>>, <<43335, 43345>>,
     <<43392, 43394>>, <<43443, 43443>>, <<43446, 43449>>, <<43452, 43453>>, <<43471, 43471>>,
     <<43493, 43494>>, <<43561, 43566>>, <<43569, 43570>>, <<43573, 43574>>, <<43587, 43587>>,
     <<43596, 43596>>, <<43632, 43632>>, <<43644, 43644>>, <<43696, 43696>>, <<43698, 43700>>,
     <<43703, 43704>>, <<43710, 43711>>, <<43713, 43713>>, <<43741, 43741>>, <<43756, 43757>>,
     <<43763, 43764>>, <<43766, 43766>>, <<43867, 43871>>, <<43881, 43883>>, <<44005, 44005>>,
     <<44008, 44008>>, <<44013, 44013>>, <<64286, 64286>>, <<64434, 64450>>, <<65024, 65039>>,
     <<65043, 65043>>, <<65056, 65071>>, <<65106, 65106>>, <<65109, 65109>>, <<65279, 65279>>,
     <<65287, 65287>>, <<65294, 65294>>, <<65306, 65306>>, <<65342, 65342>>, <<65344, 65344>>,
     <<65392, 65392>>, <<65438, 65439>>, <<65507, 65507>>, <<65529, 65531>>, <<66045, 66045>>,
     <<66272, 66272>>, <<66422, 66426>>, <<67456, 67461>>, <<67463, 67504>>, <<67506, 67514>>,
     <<68097, 68099>>, <<68101, 68102>>, <<68108, 68111>>, <<68152, 68154>>, <<68159, 68159>>,
     <<68325, 68326>>, <<68900, 68903>>, <<68942, 68942>>, <<68969, 68973>>, <<68975, 68975>>,
     <<69291, 69292>>, <<69317, 69317>>, <<69370, 69375>>, <<69446, 69456>>, <<69506, 69509>>,
     <<69633, 69633>>, <<69688, 69702>>, <<69744, 69744>>, <<69747, 69748>>, <<69759, 69761>>,
     <<69811, 69814>>, <<69817, 69818>>, <<69821, 69821>>, <<69826, 69826>>, <<69837, 69837>>,
     <<69888, 69890>>, <<69927, 69931>>, <<69933, 69940>>, <<70003, 70003>>, <<70016, 70017>>,
     <<70070, 70078>>, <<70089, 70092>>, <<70095, 70095>>, <<70191, 70193>>, <<70196, 70196>>,
     <<70198, 70199>>, <<70206, 70206>>, <<70209, 70209>>, <<70367, 70367>>, <<70371, 70378>>,
     <<70400, 70401>>, <<70459, 70460>>, <<70464, 70464>>, <<70502, 70508>>, <<70512, 70516>>,
     <<70587, 70592>>, <<70606, 70606>>, <<70608, 70608>>, <<70610, 70610>>, <<70625, 70626>>,
     <<70712, 70719>>, <<70722, 70724>>, <<70726, 70726>>, <<70750, 70750>>, <<70835, 70840>>,
     <<70842, 70842>>, <<70847, 70848>>, <<70850, 70851>>, <<71090, 71093>>, <<71100, 71101>>,
     <<71103, 71104>>, <<71132, 71133>>, <<71219, 71226>>, <<71229, 71229>>, <<71231, 71232>>,
     <<71339, 71339>>, <<71341, 71341>>, <<71344, 71349>>, <<71351, 71351>>, <<71453, 71453>>,
     <<71455, 71455>>, <<71458, 71461>>, <<71463, 71467>>, <<71727, 71735>>, <<71737, 71738>>,
     <<71995, 71996>>, <<71998, 71998>>, <<72003, 72003>>, <<72148, 72151>>, <<72154, 72155>>,
     <<72160, 72160>>, <<72193, 72202>>, <<72243, 72248>>, <<72251, 72254>>, <<72263, 72263>>,
     <<72273, 72278>>, <<72281, 72283>>, <<72330, 72342>>, <<72344, 72345>>, <<72544, 72544>>,
     <<72546, 72548>>, <<72550, 72550>>, <<72752, 72758>>, <<72760, 72765>>, <<72767, 72767>>,
     <<72850, 72871>>, <<72874, 72880>>, <<72882, 72883>>, <<72885, 72886>>, <<73009, 73014>>,
     <<73018, 73018>>, <<73020, 73021>>, <<73023, 73029>>, <<73031, 73031>>, <<73104, 73105>>,
     <<73109, 73109>>, <<73111, 73111>>, <<73177, 73177>>, <<73459, 73460>>, <<73472, 73473>>,
     <<73526, 73530>>, <<73536, 73536>>, <<73538, 73538>>, <<73562, 73562>>, <<78896, 78912>>,
     <<78919, 78933>>, <<90398, 90409>>, <<90413, 90415>>, <<92912, 92916>>, <<92976, 92982>>,
     <<92992, 92995>>, <<93504, 93506>>, <<93547, 93548>>, <<94031, 94031>>, <<94095, 94111>>,
     <<94176, 94177>>, <<94179, 94180>>, <<94194, 94195>>, <<110576, 110579>>, <<110581, 110587>>,
     <<110589, 110590>>, <<113821, 113822>>, <<113824, 113827>>, <<118528, 118573>>, <<118576, 118598>>,
     <<119143, 119145>>, <<119155, 119170>>, <<119173, 119179>>, <<119210, 119213>>, <<119362, 119364>>,
     <<121344, 121398>>, <<121403, 121452>>, <<121461, 121461>>, <<121476, 121476>>, <<121499, 121503>>,
     <<121505, 121519>>, <<122880, 122886>>, <<122888, 122904>>, <<122907, 122913>>, <<122915, 122916>>,
     <<122918, 122922>>, <<122928, 122989>>, <<123023, 123023>>, <<123184, 123197>>, <<123566, 123566>>,
     <<123628, 123631>>, <<124139, 124143>>, <<124398, 124399>>, <<124643, 124643>>, <<124646, 124646>>,
     <<124654, 124655>>, <<124661, 124661>>, <<124671, 124671>>, <<125136, 125142>>, <<125252, 125259>>,
     <<127995, 127999>>, <<917505, 917505>>, <<917536, 917631>>, <<917760, 917999>>}

CaseIgnorable == UNION {{CodePointChar(cp) : cp \in r[1]..r[2]} : r \in CaseIgnorableRanges}

\* core::unicode::Cased: <<first, last>> stands for first..last
CasedRanges ==
    {
     <<65, 90>>, <<97, 122>>, <<170, 170>>, <<181, 181>>, <<186, 186>>,
     <<192, 214>>, <<216, 246>>, <<248, 442>>, <<444, 447>>, <<452, 659>>,
     <<662, 696>>, <<704, 705>>, <<736, 740>>, <<837, 837>>, <<880, 883>>,
     <<886, 887>>, <<890, 893>>, <<895, 895>>, <<902, 902>>, <<904, 906>>,
     <<908, 908>>, <<910, 929>>, <<931, 1013>>, <<1015, 1153>>, <<1162, 1327>>,
     <<1329, 1366>>, <<1376, 1416>>, <<4256, 4293>>, <<4295, 4295>>, <<4301, 4301>>,
     <<4304, 4346>>, <<4348, 4351>>, <<5024, 5109>>, <<5112, 5117>>, <<7296, 7306>>,
     <<7312, 7354>>, <<7357, 7359>>, <<7424, 7615>>, <<7680, 7957>>, <<7960, 7965>>,
     <<7968, 8005>>, <<8008, 8013>>, <<8016, 8023>>, <<8025, 8025>>, <<8027, 8027>>,
     <<8029, 8029>>, <<8031, 8061>>, <<8064, 8116>>, <<8118, 8124>>, <<8126, 8126>>,
     <<8130, 8132>>, <<8134, 8140>>, <<8144, 8147>>, <<8150, 8155>>, <<8160, 8172>>,
     <<8178, 8180>>, <<8182, 8188>>, <<8305, 8305>>, <<8319, 8319>>, <<8336, 8348>>,
     <<8450, 8450>>, <<8455, 8455>>, <<8458, 8467>>, <<8469, 8469>>, <<8473, 8477>>,
     <<8484, 8484>>, <<8486, 8486>>, <<8488, 8488>>, <<8490, 8493>>, <<8495, 8500>>,
     <<8505, 8505>>, <<8508, 8511>>, <<8517, 8521>>, <<8526, 8526>>, <<8544, 8575>>,
     <<8579, 8580>>, <<9398, 9449>>, <<11264, 11492>>, <<11499, 11502>>, <<11506, 11507>>,
     <<11520, 11557>>, <<11559, 11559>>, <<11565, 11565>>, <<42560, 42605>>, <<42624, 42653>>,
     <<42786, 42887>>, <<42891, 42894>>, <<42896, 42972>>, <<42993, 42998>>, <<43000, 43002>>,
     <<43824, 43866>>, <<43868, 43881>>, <<43888, 43967>>, <<64256, 64262>>, <<64275, 64279>>,
     <<65313, 65338>>, <<65345, 65370>>, <<66560, 66639>>, <<66736, 66771>>, <<66776, 66811>>,
     <<66928, 66938>>, <<66940, 66954>>, <<66956, 66962>>, <<66964, 66965>>, <<66967, 66977>>,
     <<66979, 66993>>, <<66995, 67001>>, <<67003, 67004>>, <<67456, 67456>>, <<67459, 67461>>,
     <<67463, 67504>>, <<67506, 67514>>, <<68736, 68786>>, <<68800, 68850>>, <<68944, 68965>>,
     <<68976, 68997>>, <<71840, 71903>>, <<93760, 93823>>, <<93856, 93880>>, <<93883, 93907>>,
     <<119808, 119892>>, <<119894, 119964>>, <<119966, 119967>>, <<119970, 119970>>, <<119973, 119974>>,
     <<119977, 119980>>, <<119982, 119993>>, <<119995, 119995>>, <<119997, 120003>>, <<120005, 120069>>,
     <<120071, 120074>>, <<120077, 120084>>, <<120086, 120092>>, <<120094, 120121>>, <<120123, 120126>>,
     <<120128, 120132>>, <<120134, 120134>>, <<120138, 120144>>, <<120146, 120485>>, <<120488, 120512>>,
     <<120514, 120538>>, <<120540, 120570>>, <<120572, 120596>>, <<120598, 120628>>, <<120630, 120654>>,
     <<120656, 120686>>, <<120688, 120712>>, <<120714, 120744>>, <<120746, 120770>>, <<120772, 120779>>,
     <<122624, 122633>>, <<122635, 122654>>, <<122661, 122666>>, <<122928, 122989>>, <<125184, 125251>>,
     <<127280, 127305>>, <<127312, 127337>>, <<127344, 127369>>}

Cased == UNION {{CodePointChar(cp) : cp \in r[1]..r[2]} : r \in CasedRanges}

CapitalSigma == CodePointChar(931)
SmallSigma == CodePointChar(963)
FinalSigma == CodePointChar(962)
CapitalIDot == CodePointChar(304)
CombiningDot == CodePointChar(775)

\* case_ignorable_then_cased over the characters s[i], s[i + step], ..:
\* the first one that is not Case_Ignorable exists and is Cased
CasedNext(s, i, step) ==
    \E j \in 1..Len(s) :
        /\ (j - i) * step >= 0
        /\ s[j] \notin CaseIgnorable
        /\ s[j] \in Cased
        /\ \A k \in 1..Len(s) :
              ((k - i) * step >= 0 /\ (j - k) * step > 0) => s[k] \in CaseIgnorable

\* map_uppercase_sigma: the capital sigma at s[i] becomes the final sigma
\* when a cased letter comes before it and none comes after it
map_uppercase_sigma(s, i) ==
    IF CasedNext(s, i - 1, 0 - 1) /\ ~CasedNext(s, i + 1, 1)
    THEN FinalSigma
    ELSE SmallSigma

\* the concatenation of a sequence of strings
RECURSIVE Concat(_)
Concat(ss) == IF ss = <<>> THEN <<>> ELSE Head(ss) \o Concat(Tail(ss))

\* str::to_lowercase
to_lowercase(s) ==
    IF \A i \in 1..Len(s) : s[i] \notin {CapitalSigma, CapitalIDot}
    THEN [i \in 1..Len(s) |-> LowerChar(s[i])]
    ELSE Concat([i \in 1..Len(s) |->
                    IF s[i] = CapitalSigma THEN <<map_uppercase_sigma(s, i)>>
                    ELSE IF s[i] = CapitalIDot THEN <<"i", CombiningDot>>
                    ELSE <<LowerChar(s[i])>>])

---------------------------------------------------------------------------
(* The reserved tag namespace                                              *)

\* "dev.pokem.block"
BlockTag == <<"d","e","v",".","p","o","k","e","m",".","b","l","o","c","k">>
\* "dev.pokem.auth."
AuthPrefix == <<"d","e","v",".","p","o","k","e","m",".","a","u","t","h",".">>
\* "dev.pokem.pass."
PassPrefix == <<"d","e","v",".","p","o","k","e","m",".","p","a","s","s",".">>
\* a tag outside the namespace ("m.lowpriority" stands for any such tag)
OtherTag == <<"m",".","l","o","w">>

\* RoomConfig, src/config.rs
RoomConfig(block, auth) == [block |-> block, auth |-> auth]
\* RoomConfig::default()
DefaultConfig == RoomConfig(FALSE, None)

---------------------------------------------------------------------------
(* Rooms                                                                   *)

\* "!JYrjsPjErpFSDdpwpI:jackson.dev"
ExampleRoom ==
    <<"!","J","Y","r","j","s","P","j","E","r","p","F","S","D","d","p","w","p","I",
      ":","j","a","c","k","s","o","n",".","d","e","v">>
\* "!a:x.y", an ordinary room
RoomA == <<"!","a",":","x",".","y">>
RoomIds == {ExampleRoom, RoomA}

---------------------------------------------------------------------------
(* The tag store of one room.  room.tags() hands out a BTreeMap keyed by   *)
(* TagName: a loop over it meets the tags in ascending order.              *)

\* (mutant) a failed read hands out the stored tags all the same
TagsRead_always(ts, ok) == ts

\* `room.tags().await.unwrap_or_default().unwrap_or_default()`: the stored
\* tags, or no tags at all when the read fails (ok = FALSE)
TagsRead(ts, ok) == IF ok THEN ts ELSE {}

\* the iteration order of `for (tag, _) in tags`
RECURSIVE Scan(_)
Scan(ts) ==
    IF ts = {} THEN <<>>
    ELSE LET m == CHOOSE x \in ts : \A y \in ts \ {x} : LexLess(x, y)
         IN  <<m>> \o Scan(ts \ {m})

SetTag(tag) == [call |-> "set_tag", tag |-> tag]
RemoveTag(tag) == [call |-> "remove_tag", tag |-> tag]

\* the effect of one room.set_tag / room.remove_tag that succeeds
ApplyCall(ts, c) ==
    IF c.call = "set_tag" THEN ts \cup {c.tag} ELSE ts \ {c.tag}

RECURSIVE ApplyCalls(_, _)
ApplyCalls(ts, cs) ==
    IF cs = <<>> THEN ts ELSE ApplyCalls(ApplyCall(ts, Head(cs)), Tail(cs))

\* set_room_config, lines 17-23: the block tag
BlockCall(config) ==
    IF config.block THEN SetTag(BlockTag) ELSE RemoveTag(BlockTag)

\* set_room_config, line 25
AuthToken(config) == IF IsSome(config.auth) THEN Unwrap(config.auth) ELSE <<>>

\* set_room_config, lines 34-35: the tag already carries the wanted token
AlreadyPlaced(tag, config) ==
    /\ IsSome(config.auth)
    /\ trim_start_matches(tag, AuthPrefix) = AuthToken(config)

\* set_room_config, lines 29-44: the calls the loop makes over the tags read
\* at line 28, in scan order
RECURSIVE RemoveCalls(_, _)
RemoveCalls(scan, config) ==
    IF scan = <<>> THEN <<>>
    ELSE LET tag == Head(scan)
             here == IF starts_with(tag, PassPrefix) THEN <<RemoveTag(tag)>>
                     ELSE IF starts_with(tag, AuthPrefix)
                          THEN IF AlreadyPlaced(tag, config) THEN <<>>
                               ELSE <<RemoveTag(tag)>>
                     ELSE <<>>
         IN  here \o RemoveCalls(Tail(scan), config)

\* set_room_config, lines 27-44: `placed` after the loop
Placed(snapshot, config) ==
    \E tag \in snapshot :
        /\ ~starts_with(tag, PassPrefix)
        /\ starts_with(tag, AuthPrefix)
        /\ AlreadyPlaced(tag, config)

\* set_room_config, lines 45-52
PlaceCalls(snapshot, config) ==
    IF IsSome(config.auth) /\ ~Placed(snapshot, config)
    THEN <<SetTag(AuthPrefix \o AuthToken(config))>>
    ELSE <<>>

\* set_room_config, lines 28-52: every call made after the tags were read
AuthCalls(snapshot, config) ==
    RemoveCalls(Scan(snapshot), config) \o PlaceCalls(snapshot, config)

\* set_room_config run alone to completion on a room holding ts: the
\* set_tag/remove_tag calls it makes, in order
set_room_config_calls(ts, config, rd) ==
    LET t1 == ApplyCall(ts, BlockCall(config))
    IN  <<BlockCall(config)>> \o AuthCalls(TagsRead(t1, rd), config)

\* set_room_config run alone to completion on a room holding ts, every
\* set_tag/remove_tag succeeding: the room's tags afterwards.  rd tells whether
\* the read of line 28 succeeds.
set_room_config(ts, config, rd) ==
    ApplyCalls(ts, set_room_config_calls(ts, config, rd))

\* (mutant) a dev.pokem.auth.* tag also asks for the rewrite
GetStep_update_on_auth(acc, tag) ==
    IF tag = BlockTag THEN [acc EXCEPT !.config.block = TRUE]
    ELSE IF starts_with(tag, AuthPrefix)
         THEN IF IsSome(acc.config.auth) THEN [acc EXCEPT !.should_update = TRUE]
              ELSE [acc EXCEPT !.should_update = TRUE,
                               !.config.auth =
                                  Some(trim_start_matches(tag, AuthPrefix))]
    ELSE IF starts_with(tag, PassPrefix)
         THEN IF IsSome(acc.config.auth)
              THEN [acc EXCEPT !.should_update = TRUE]
              ELSE [acc EXCEPT !.should_update = TRUE,
                               !.config.auth =
                                  Some(trim_start_matches(tag, PassPrefix))]
    ELSE acc

\* (mutant) a later token tag replaces the token of an earlier one
GetStep_last_wins(acc, tag) ==
    IF tag = BlockTag THEN [acc EXCEPT !.config.block = TRUE]
    ELSE IF starts_with(tag, AuthPrefix)
         THEN [acc EXCEPT !.config.auth =
                             Some(trim_start_matches(tag, AuthPrefix))]
    ELSE IF starts_with(tag, PassPrefix)
         THEN [acc EXCEPT !.should_update = TRUE,
                          !.config.auth =
                             Some(trim_start_matches(tag, PassPrefix))]
    ELSE acc

\* get_room_config, lines 61-99: the body of the loop for one tag
GetStep(acc, tag) ==
    IF tag = BlockTag THEN [acc EXCEPT !.config.block = TRUE]
    ELSE IF starts_with(tag, AuthPrefix)
         THEN IF IsSome(acc.config.auth) THEN acc
              ELSE [acc EXCEPT !.config.auth =
                                  Some(trim_start_matches(tag, AuthPrefix))]
    ELSE IF starts_with(tag, PassPrefix)
         THEN IF IsSome(acc.config.auth)
              THEN [acc EXCEPT !.should_update = TRUE]
              ELSE [acc EXCEPT !.should_update = TRUE,
                               !.config.auth =
                                  Some(trim_start_matches(tag, PassPrefix))]
    ELSE acc

\* get_room_config, lines 57-100
RECURSIVE GetLoop(_, _)
GetLoop(acc, scan) ==
    IF scan = <<>> THEN acc ELSE GetLoop(GetStep(acc, Head(scan)), Tail(scan))

\* get_room_config run alone to completion on a room holding ts: the config
\* it returns and the room's tags afterwards.  rd tells whether the read of
\* line 58 succeeds, rd2 whether the read inside the migrating
\* set_room_config does.
get_room_config(ts, rd, rd2) ==
    LET acc == GetLoop([config |-> DefaultConfig, should_update |-> FALSE],
                       Scan(TagsRead(ts, rd)))
    IN  [config |-> acc.config,
         calls  |-> IF acc.should_update
                    THEN set_room_config_calls(ts, acc.config, rd2)
                    ELSE <<>>,
         tags   |-> IF acc.should_update
                    THEN set_room_config(ts, acc.config, rd2)
                    ELSE ts]

---------------------------------------------------------------------------
(* The authentication validator, src/utils.rs validate_authentication      *)

\* anyhow::Result<String>: Ok(message) or the error "Incorrect
\* Authentication Token"
Ok(m) == Some(m)
Rejected == None

\* HeaderMap, by the names the code reads (HeaderMap::get is
\* case-insensitive and returns the first value of the name)
Headers(authentication, auth, format) ==
    [authentication |-> authentication, auth |-> auth, format |-> format]
NoHeaders == Headers(None, None, None)

\* HeaderValue::to_str: Err (None) unless every byte of the value is
\* visible ASCII (32 to 126) or a tab
to_str(v) ==
    IF \A i \in 1..Len(StrBytes(v)) : StrBytes(v)[i] \in 32..126 \cup {9}
    THEN Some(v)
    ELSE None

\* `.to_str().unwrap_or_default()`: "" for a value that is no visible ASCII
to_str_or_default(v) == IF IsSome(to_str(v)) THEN Unwrap(to_str(v)) ELSE <<>>

\* validate_authentication, lines 327-336: the `authentication` header when
\* present, else the `auth` header, else ""; a value that is no visible
\* ASCII reads as ""
HeaderToken(headers) ==
    IF IsSome(headers.authentication)
    THEN to_str_or_default(Unwrap(headers.authentication))
    ELSE IF IsSome(headers.auth) THEN to_str_or_default(Unwrap(headers.auth))
    ELSE <<>>

\* (mutant) the header comparison of line 337 inverted
validate_authentication_inverted_header(room_config, headers, msg) ==
    IF IsSome(room_config.auth)
    THEN IF HeaderToken(headers) # Unwrap(room_config.auth)
         THEN Ok(msg)
         ELSE IF ~starts_with(msg, Unwrap(room_config.auth))
              THEN Rejected
              ELSE Ok(trim_start(trim_start_matches(msg, Unwrap(room_config.auth))))
    ELSE Ok(msg)

\* (mutant) the prefix check of lines 344-346 left out
validate_authentication_unchecked(room_config, headers, msg) ==
    IF IsSome(room_config.auth)
    THEN IF HeaderToken(headers) = Unwrap(room_config.auth)
         THEN Ok(msg)
         ELSE Ok(trim_start(trim_start_matches(msg, Unwrap(room_config.auth))))
    ELSE Ok(msg)

\* validate_authentication, lines 320-355
validate_authentication(room_config, headers, msg) ==
    IF IsSome(room_config.auth)
    THEN IF HeaderToken(headers) = Unwrap(room_config.auth)
         THEN Ok(msg)
         ELSE IF ~starts_with(msg, Unwrap(room_config.auth))
              THEN Rejected
              ELSE Ok(trim_start(trim_start_matches(msg, Unwrap(room_config.auth))))
    ELSE Ok(msg)

---------------------------------------------------------------------------
(* Room resolution, src/utils.rs get_room_from_name                        *)

\* Room::canonical_alias of the rooms of the model: RoomA is "#a:x.y"
CanonicalAlias(r) ==
    IF r = RoomA THEN Some(<<"#","a",":","x",".","y">>) ELSE None
\* Room::alt_aliases of the rooms of the model: the example room has "#e:x.y"
AltAliases(r) ==
    IF r = ExampleRoom THEN {<<"#","e",":","x",".","y">>} ELSE {}

\* the characters of a server name: ASCII letters and digits, '-' and '.'
HostChars ==
    {CodePointChar(cp) : cp \in 48..57 \cup 65..90 \cup 97..122 \cup {45, 46}}

\* RoomId::parse(name).is_ok(): the sigil '!', then a ':' followed by a
\* non-empty server name
RoomIdParse(name) ==
    /\ name # <<>>
    /\ name[1] = "!"
    /\ \E i \in 2..Len(name) :
          /\ name[i] = ":"
          /\ \A k \in 2..(i - 1) : name[k] # ":"
          /\ i < Len(name)
          /\ \A k \in (i + 1)..Len(name) : name[k] \in HostChars

\* the tail `.*:.*\..*` of the two regular expressions: after the first
\* character, a ':' and later a '.'; the `.` of a Regex matches every
\* character but "\n", so no line feed comes before that '.'
ColonThenDot(name) ==
    \E i \in 2..Len(name), j \in 2..Len(name) :
        /\ i < j /\ name[i] = ":" /\ name[j] = "."
        /\ \A k \in 2..j : name[k] # "\n"

\* Regex `^@.*:.*\..*`, line 271
LooksLikeUser(name) == name # <<>> /\ name[1] = "@" /\ ColonThenDot(name)

\* Regex `^#.*:.*\..*`, line 291
LooksLikeAlias(name) == name # <<>> /\ name[1] = "#" /\ ColonThenDot(name)

\* bot.client().get_room(&id): the room of that id, whatever its state
get_room(id) == IF id \in RoomIds THEN Some(id) ELSE None

\* (mutant) the rooms of every state
joined_rooms_any_state(st) == Scan(RoomIds)

\* bot.client().joined_rooms(); the rooms of the model have distinct
\* aliases, so the order of the scan does not show
joined_rooms(st) == Scan({r \in RoomIds : st[r] = "Joined"})

\* get_room_from_name, lines 297-311: the scan of the joined rooms
RECURSIVE AliasScan(_, _)
AliasScan(rooms, name) ==
    IF rooms = <<>> THEN None
    ELSE LET r == Head(rooms)
         IN  IF CanonicalAlias(r) = Some(name) \/ name \in AltAliases(r)
             THEN Some(r)
             ELSE AliasScan(Tail(rooms), name)

\* (mutant) the alias scan covers the rooms that are not joined as well
get_room_from_name_all_rooms(st, name) ==
    IF name = <<>> THEN None
    ELSE IF RoomIdParse(name) THEN get_room(name)
    ELSE IF LooksLikeUser(name) THEN None
    ELSE LET alias == IF name[1] = "#" THEN name ELSE <<"#">> \o name
         IN  IF LooksLikeAlias(alias)
             THEN AliasScan(Scan(RoomIds), alias)
             ELSE None

\* get_room_from_name, lines 260-315; st is the state of each room
get_room_from_name(st, name) ==
    IF name = <<>> THEN None
    ELSE IF RoomIdParse(name) THEN get_room(name)
    ELSE IF LooksLikeUser(name) THEN None
    ELSE LET alias == IF name[1] = "#" THEN name ELSE <<"#">> \o name
         IN  IF LooksLikeAlias(alias)
             THEN AliasScan(joined_rooms(st), alias)
             ELSE None

---------------------------------------------------------------------------
(* The send-allowed policy and the message format, src/utils.rs            *)

\* (mutant) the block tag is not consulted
can_message_room_unblocked(r, ts, rd) == TRUE

\* can_message_room, lines 119-140; ts the room's tags, rd whether the read
\* of the tags succeeds
can_message_room(r, ts, rd) ==
    IF r = ExampleRoom THEN TRUE
    ELSE IF BlockTag \in TagsRead(ts, rd) THEN FALSE
    ELSE TRUE

\* MatrixConfig.room_size_limit as connect hands it to the bot, line 393
room_size_limit == Some(RoomSizeLimit)

Markdown == <<"m","a","r","k","d","o","w","n">>
Plain == <<"p","l","a","i","n">>

\* the deployment's default format (matrix.format of the configuration)
ConfigFormat == None

\* format_message, lines 227-255: the content for msg, "markdown" or "plain"
format_message(headers, msg) ==
    LET default == IF IsSome(ConfigFormat) THEN Unwrap(ConfigFormat) ELSE Markdown
        format  == IF IsSome(headers.format)
                   THEN to_str_or_default(Unwrap(headers.format))
                   ELSE default
    IN  [body |-> msg,
         format |-> IF to_lowercase(format) = Plain THEN "plain" ELSE "markdown",
         mention_room |-> FALSE]

\* RoomMessageEventContent::add_mentions(Mentions::with_room_mention())
add_room_mention(content) == [content EXCEPT !.mention_room = TRUE]

---------------------------------------------------------------------------
(* Each specification below exercises one part of the program; the         *)
(* variables of the parts it does not exercise rest at these values.       *)

StoreIdle ==
    /\ room = RoomA
    /\ direct = 0
    /\ op = "none"
    /\ arg = DefaultConfig
    /\ ret = DefaultConfig
    /\ before = {}

DeliveryIdle ==
    /\ p_pc = "off"
    /\ p_name = <<>>
    /\ p_headers = NoHeaders
    /\ p_message = <<>>
    /\ p_mention = FALSE
    /\ p_room = None
    /\ p_delay = 0
    /\ p_slept = 0
    /\ p_msg = <<>>
    /\ p_seen = None
    /\ p_allowed = FALSE
    /\ p_result = "none"
    /\ sent = None

PingIdle ==
    /\ roomState = [r \in RoomIds |-> "Joined"]
    /\ members = [r \in RoomIds |-> 1]
    /\ reply = <<>>
    /\ DeliveryIdle

AuthIdle ==
    /\ va_pc = "off"
    /\ va_config = DefaultConfig
    /\ va_headers = NoHeaders
    /\ va_msg = <<>>
    /\ va_result = Rejected
    /\ va_again = Rejected

HttpIdle ==
    /\ h_pc = "off"
    /\ h_req = <<>>
    /\ h_rooms = None
    /\ h_poke = None
    /\ h_resp = None

\* The tasks that may run at the same time: a chat command or callback, or a
\* direct call of the store, runs in either; a delivery by ping_room makes
\* its store call in the second.
ChatTask == "chat"
PingTask == "ping"
Tasks == {ChatTask, PingTask}

TaskIdle ==
    /\ w_pc = [w \in Tasks |-> "off"]
    /\ w_cmd = [w \in Tasks |-> <<>>]
    /\ w_resp = [w \in Tasks |-> <<>>]
    /\ w_seen = [w \in Tasks |-> None]
    /\ w_in = [w \in Tasks |-> "set"]
    /\ w_config = [w \in Tasks |-> DefaultConfig]
    /\ w_todo = [w \in Tasks |-> <<>>]
    /\ w_calls = [w \in Tasks |-> <<>>]
    /\ w_before = [w \in Tasks |-> {}]
    /\ w_overlap = FALSE
    /\ read_err = FALSE

\* the tag calls the store call of the delivery has completed
p_calls == w_calls[PingTask]

---------------------------------------------------------------------------
(* SpecAuth: validate_authentication applied to every input of the bounded *)
(* sets, and applied again to the message it returned.                     *)

AuthTokChars == {"a", "b", EAcute}
AuthTokens == Str(AuthTokChars, MaxTokLen)
AuthConfigs == {RoomConfig(FALSE, a) : a \in {None} \cup {Some(t) : t \in AuthTokens}}
HeaderValues ==
    {None, Some(<<HighByte>>), Some(<<EmojiWarning>>)} \cup {Some(t) : t \in AuthTokens}
AuthHeaders == {Headers(x, y, None) : x \in HeaderValues, y \in HeaderValues}
MsgChars == {"a", " ", "\n"}
Messages == Str(MsgChars, MaxMsgLen)

AuthInit ==
    /\ StoreIdle
    /\ PingIdle
    /\ HttpIdle
    /\ TaskIdle
    /\ tags = [r \in RoomIds |-> {}]
    /\ va_pc = "input"
    /\ va_config \in AuthConfigs
    /\ va_headers \in AuthHeaders
    /\ va_msg \in Messages
    /\ va_result = Rejected
    /\ va_again = Rejected

\* validate_authentication(room_config, headers, msg)
Validate ==
    /\ va_pc = "input"
    /\ va_result' = validate_authentication(va_config, va_headers, va_msg)
    /\ va_pc' = "validated"
    /\ UNCHANGED <<tags, storeVars, pingVars, httpVars, taskVars, va_config, va_headers, va_msg, va_again>>

\* the returned message validated again, with no header token
Revalidate ==
    /\ va_pc = "validated"
    /\ IsSome(va_result)
    /\ va_again' = validate_authentication(va_config, NoHeaders, Unwrap(va_result))
    /\ va_pc' = "revalidated"
    /\ UNCHANGED <<tags, storeVars, pingVars, httpVars, taskVars, va_config, va_headers, va_msg, va_result>>

AuthNext == Validate \/ Revalidate

SpecAuth == AuthInit /\ [][AuthNext]_vars

---------------------------------------------------------------------------
(* Claims on the authentication validator                                  *)

Validated == va_pc \in {"validated", "revalidated"}

\* the string s begins with the string p
BeginsWith(s, p) == Len(p) <= Len(s) /\ \A i \in 1..Len(p) : s[i] = p[i]

\* the validation of the inputs took the message-prefix path: a token is
\* configured, the header token is not the token, the message begins with it
PrefixPath ==
    /\ IsSome(va_config.auth)
    /\ HeaderToken(va_headers) # Unwrap(va_config.auth)
    /\ BeginsWith(va_msg, Unwrap(va_config.auth))

\* C3: with a token configured the validator accepts only if the
\* authentication or auth header equals the token or the message starts with
\* the token, and rejects otherwise; with no token it returns the message
\* unchanged whatever the headers and the message are.
C3_AcceptOnlyWithToken ==
    Validated =>
        /\ (IsSome(va_config.auth) /\ IsSome(va_result)) =>
              \/ va_headers.authentication = va_config.auth
              \/ va_headers.auth = va_config.auth
              \/ BeginsWith(va_msg, Unwrap(va_config.auth))
        /\ va_config.auth = None => va_result = Ok(va_msg)

\* C3 witness: a token is configured, a header carries another value, the
\* message does not begin with the token, and the validator has rejected.
C3_Witness ==
    /\ va_pc = "validated"
    /\ va_config.auth = Some(<<"a">>)
    /\ va_headers.authentication = Some(<<"b">>)
    /\ va_msg = <<" ", "a">>
    /\ va_result = Rejected

\* C4: with a token configured, the validator returns the message unchanged
\* whenever the authentication header or the auth header carries exactly the
\* token, whatever the other header and the message contain.
C4_EitherHeaderAccepts ==
    (Validated /\ IsSome(va_config.auth)
        /\ (va_headers.authentication = va_config.auth
            \/ va_headers.auth = va_config.auth))
    => va_result = Ok(va_msg)

\* C5 as claimed: a message accepted through the prefix path with no header
\* token is rejected when the returned message is validated again.
C5_TokenConsumedOnce ==
    (va_pc = "revalidated" /\ va_headers = NoHeaders /\ PrefixPath)
    => va_again = Rejected

\* C5 amended: a message accepted through the prefix path with no header
\* token is rejected when validated again unless the returned message itself
\* begins with the token (token "a", message "a a" returns "a"), in which
\* case it is accepted again.
C5_RejectedUnlessPrefixAgain ==
    (va_pc = "revalidated" /\ va_headers = NoHeaders /\ PrefixPath)
    => (va_again = Rejected
          <=> ~BeginsWith(Unwrap(va_result), Unwrap(va_config.auth)))

\* C5 witness: token "a", message "a " accepted by prefix, returned "" and
\* rejected on the second validation.
C5_Witness ==
    /\ va_pc = "revalidated"
    /\ va_headers = NoHeaders
    /\ va_config.auth = Some(<<"a">>)
    /\ va_msg = <<"a", " ">>
    /\ va_result = Ok(<<>>)
    /\ va_again = Rejected

\* C6: on the prefix path the returned message is the input with exactly ONE
\* leading occurrence of the token removed, then the leading whitespace that
\* follows it removed.
C6_StripsExactlyOne ==
    (Validated /\ PrefixPath) =>
        va_result = Ok(trim_start(SubSeq(va_msg, Len(Unwrap(va_config.auth)) + 1,
                                         Len(va_msg))))

---------------------------------------------------------------------------
(* Inputs of the store operations                                          *)

TokChars == {"a"}
\* A token may itself begin with a reserved prefix (`set auth dev.pokem.auth.a`).
ReservedPrefixes == {<<>>, AuthPrefix, PassPrefix}
Tokens == {p \o t : p \in ReservedPrefixes, t \in Str(TokChars, MaxTokLen)}
Configs == {RoomConfig(b, a) : b \in BOOLEAN, a \in {None} \cup {Some(t) : t \in Tokens}}

InitTagUniverse ==
    {BlockTag, OtherTag} \cup {AuthPrefix \o t : t \in Tokens}
                         \cup {PassPrefix \o t : t \in Tokens}
InitTagSets == {ts \in SUBSET InitTagUniverse : Cardinality(ts) <= MaxTags}

\* room.tags().await may fail
ReadOutcomes == BOOLEAN
\* room.set_tag(..).await and room.remove_tag(..).await may fail
WriteOutcomes == BOOLEAN
\* room.send(..).await may fail
SendOutcomes == BOOLEAN

---------------------------------------------------------------------------
(* The store calls of a task, one `.await` a step.  set_room_config awaits *)
(* the block call, the read of the tags and each remove_tag / set_tag of   *)
(* its loop and placement; get_room_config awaits the read of the tags and *)
(* then, when it read a legacy tag, the whole of set_room_config.  No lock *)
(* is held between the steps.  When the call returns or panics the store   *)
(* history records it.                                                     *)

\* the room the task w works on: the resolved room for the delivery, the
\* room of the command or callback for the chat side
RoomOf(w) == IF w = PingTask /\ IsSome(p_room) THEN Unwrap(p_room) ELSE room

\* the task w is in no store call and in no handler
Free(w) == w_pc[w] \in {"off", "done", "returned", "errored", "panicked"}

\* the store call of task w has made a tag call and has not returned
UnderWay(w) == w_pc[w] \in {"read", "calls"}

\* a step of task w falls into the store call of another task
Overlaps(w) == w_overlap \/ \E v \in Tasks \ {w} : UnderWay(v)

\* task w calls set_room_config(room, config), line 16
CallSet(w, config) ==
    /\ w_pc' = [w_pc EXCEPT ![w] = "start"]
    /\ w_in' = [w_in EXCEPT ![w] = "set"]
    /\ w_config' = [w_config EXCEPT ![w] = config]
    /\ w_todo' = [w_todo EXCEPT ![w] = <<>>]
    /\ w_calls' = [w_calls EXCEPT ![w] = <<>>]
    /\ w_before' = [w_before EXCEPT ![w] = tags[RoomOf(w)]]
    /\ UNCHANGED <<w_overlap, read_err>>

\* task w calls get_room_config(room), lines 56-57
CallGet(w) ==
    /\ w_pc' = [w_pc EXCEPT ![w] = "get"]
    /\ w_in' = [w_in EXCEPT ![w] = "get"]
    /\ w_config' = [w_config EXCEPT ![w] = DefaultConfig]
    /\ w_todo' = [w_todo EXCEPT ![w] = <<>>]
    /\ w_calls' = [w_calls EXCEPT ![w] = <<>>]
    /\ w_before' = [w_before EXCEPT ![w] = tags[RoomOf(w)]]
    /\ UNCHANGED <<w_overlap, read_err>>

\* the store call fn of task w returns: set_room_config at line 53,
\* get_room_config with its config at line 105
Returns(w, fn, config) ==
    /\ op' = fn
    /\ before' = w_before[w]
    /\ IF fn = "set"
       THEN arg' = config /\ UNCHANGED ret
       ELSE ret' = config /\ UNCHANGED arg

\* a set_tag or remove_tag of task w fails: lines 20, 22, 32, 41 and 51
\* unwrap the error and the task panics, inside get_room_config as well
Panics(w) ==
    /\ w_pc' = [w_pc EXCEPT ![w] = "panicked"]
    /\ op' = IF w_in[w] = "set" THEN "set panicked" ELSE "get panicked"
    /\ before' = w_before[w]
    /\ arg' = IF w_in[w] = "set" THEN w_config[w] ELSE arg
    /\ UNCHANGED ret

\* (mutant) a dev.pokem.auth.* tag read makes the get rewrite as well
GetRead_always_writes(w) ==
    /\ w_pc[w] = "get"
    /\ \E rd \in ReadOutcomes :
          LET acc == GetLoop([config |-> DefaultConfig, should_update |-> FALSE],
                             Scan(TagsRead(tags[RoomOf(w)], rd)))
              fn  == IF rd THEN "get" ELSE "get, read failed"
          IN  /\ read_err' = (read_err \/ ~rd)
              /\ w_in' = [w_in EXCEPT ![w] = fn]
              /\ w_config' = [w_config EXCEPT ![w] = acc.config]
              /\ IF acc.should_update \/ IsSome(acc.config.auth)
                 THEN /\ w_pc' = [w_pc EXCEPT ![w] = "start"]
                      /\ UNCHANGED histVars
                 ELSE /\ w_pc' = [w_pc EXCEPT ![w] = "done"]
                      /\ Returns(w, fn, acc.config)
    /\ w_overlap' = Overlaps(w)
    /\ UNCHANGED <<tags, room, direct, authVars, pingVars, httpVars, handlerVars,
                   w_todo, w_calls, w_before>>

\* (mutant) the get never runs the rewrite
GetRead_no_rewrite(w) ==
    /\ w_pc[w] = "get"
    /\ \E rd \in ReadOutcomes :
          LET acc == GetLoop([config |-> DefaultConfig, should_update |-> FALSE],
                             Scan(TagsRead(tags[RoomOf(w)], rd)))
              fn  == IF rd THEN "get" ELSE "get, read failed"
          IN  /\ read_err' = (read_err \/ ~rd)
              /\ w_in' = [w_in EXCEPT ![w] = fn]
              /\ w_config' = [w_config EXCEPT ![w] = acc.config]
              /\ w_pc' = [w_pc EXCEPT ![w] = "done"]
              /\ Returns(w, fn, acc.config)
    /\ w_overlap' = Overlaps(w)
    /\ UNCHANGED <<tags, room, direct, authVars, pingVars, httpVars, handlerVars,
                   w_todo, w_calls, w_before>>

\* get_room_config, lines 58-105: task w reads the room's tags and scans
\* them; with no legacy tag read it returns the config, else it goes on to
\* set_room_config(room, config.clone()) of line 103
GetRead(w) ==
    /\ w_pc[w] = "get"
    /\ \E rd \in ReadOutcomes :
          LET acc == GetLoop([config |-> DefaultConfig, should_update |-> FALSE],
                             Scan(TagsRead(tags[RoomOf(w)], rd)))
              fn  == IF rd THEN "get" ELSE "get, read failed"
          IN  /\ read_err' = (read_err \/ ~rd)
              /\ w_in' = [w_in EXCEPT ![w] = fn]
              /\ w_config' = [w_config EXCEPT ![w] = acc.config]
              /\ IF acc.should_update
                 THEN /\ w_pc' = [w_pc EXCEPT ![w] = "start"]
                      /\ UNCHANGED histVars
                 ELSE /\ w_pc' = [w_pc EXCEPT ![w] = "done"]
                      /\ Returns(w, fn, acc.config)
    /\ w_overlap' = Overlaps(w)
    /\ UNCHANGED <<tags, room, direct, authVars, pingVars, httpVars, handlerVars,
                   w_todo, w_calls, w_before>>

\* (mutant) a failed block call is skipped and the call goes on
WriterBlock_swallowed(w) ==
    /\ w_pc[w] = "start"
    /\ \E ok \in WriteOutcomes :
          /\ tags' = [tags EXCEPT ![RoomOf(w)] =
                         IF ok THEN ApplyCall(@, BlockCall(w_config[w])) ELSE @]
          /\ w_calls' = [w_calls EXCEPT ![w] =
                            IF ok THEN Append(@, BlockCall(w_config[w])) ELSE @]
          /\ w_pc' = [w_pc EXCEPT ![w] = "read"]
          /\ UNCHANGED histVars
    /\ w_overlap' = Overlaps(w)
    /\ UNCHANGED <<room, direct, authVars, pingVars, httpVars, handlerVars,
                   w_in, w_config, w_todo, w_before, read_err>>

\* set_room_config, lines 17-23: the block call of task w
WriterBlock(w) ==
    /\ w_pc[w] = "start"
    /\ \E ok \in WriteOutcomes :
          IF ok
          THEN /\ tags' = [tags EXCEPT ![RoomOf(w)] =
                              ApplyCall(@, BlockCall(w_config[w]))]
               /\ w_calls' = [w_calls EXCEPT ![w] = Append(@, BlockCall(w_config[w]))]
               /\ w_pc' = [w_pc EXCEPT ![w] = "read"]
               /\ UNCHANGED histVars
          ELSE /\ Panics(w)
               /\ UNCHANGED <<tags, w_calls>>
    /\ w_overlap' = Overlaps(w)
    /\ UNCHANGED <<room, direct, authVars, pingVars, httpVars, handlerVars,
                   w_in, w_config, w_todo, w_before, read_err>>

\* (mutant) the loop works on the tags the room held when the call began
WriterRead_stale(w) ==
    /\ w_pc[w] = "read"
    /\ \E rd \in ReadOutcomes :
          LET calls == AuthCalls(TagsRead(w_before[w], rd), w_config[w])
          IN  /\ read_err' = (read_err \/ ~rd)
              /\ w_todo' = [w_todo EXCEPT ![w] = calls]
              /\ IF calls = <<>>
                 THEN /\ w_pc' = [w_pc EXCEPT ![w] = "done"]
                      /\ Returns(w, w_in[w], w_config[w])
                 ELSE /\ w_pc' = [w_pc EXCEPT ![w] = "calls"]
                      /\ UNCHANGED histVars
    /\ w_overlap' = Overlaps(w)
    /\ UNCHANGED <<tags, room, direct, authVars, pingVars, httpVars, handlerVars,
                   w_in, w_config, w_calls, w_before>>

\* set_room_config, line 28: task w reads the room's tags; the loop of
\* lines 29-44 and the placement of lines 45-52 work on this snapshot
WriterRead(w) ==
    /\ w_pc[w] = "read"
    /\ \E rd \in ReadOutcomes :
          LET calls == AuthCalls(TagsRead(tags[RoomOf(w)], rd), w_config[w])
          IN  /\ read_err' = (read_err \/ ~rd)
              /\ w_todo' = [w_todo EXCEPT ![w] = calls]
              /\ IF calls = <<>>
                 THEN /\ w_pc' = [w_pc EXCEPT ![w] = "done"]
                      /\ Returns(w, w_in[w], w_config[w])
                 ELSE /\ w_pc' = [w_pc EXCEPT ![w] = "calls"]
                      /\ UNCHANGED histVars
    /\ w_overlap' = Overlaps(w)
    /\ UNCHANGED <<tags, room, direct, authVars, pingVars, httpVars, handlerVars,
                   w_in, w_config, w_calls, w_before>>

\* set_room_config, lines 32, 41, 51: the next remove_tag / set_tag of task w
WriterCall(w) ==
    /\ w_pc[w] = "calls"
    /\ \E ok \in WriteOutcomes :
          IF ok
          THEN /\ tags' = [tags EXCEPT ![RoomOf(w)] = ApplyCall(@, Head(w_todo[w]))]
               /\ w_todo' = [w_todo EXCEPT ![w] = Tail(@)]
               /\ w_calls' = [w_calls EXCEPT ![w] = Append(@, Head(w_todo[w]))]
               /\ IF Tail(w_todo[w]) = <<>>
                  THEN /\ w_pc' = [w_pc EXCEPT ![w] = "done"]
                       /\ Returns(w, w_in[w], w_config[w])
                  ELSE /\ UNCHANGED <<w_pc, histVars>>
          ELSE /\ Panics(w)
               /\ UNCHANGED <<tags, w_todo, w_calls>>
    /\ w_overlap' = Overlaps(w)
    /\ UNCHANGED <<room, direct, authVars, pingVars, httpVars, handlerVars,
                   w_in, w_config, w_before, read_err>>

\* a step of the store call of task w
StoreStep(w) == GetRead(w) \/ WriterBlock(w) \/ WriterRead(w) \/ WriterCall(w)

\* set_room_config(&room, config) called directly in task w
SetRoomConfig(w, config) ==
    /\ Free(w)
    /\ direct < MaxDirect
    /\ direct' = direct + 1
    /\ CallSet(w, config)
    /\ UNCHANGED <<tags, room, histVars, authVars, pingVars, httpVars, handlerVars>>

\* get_room_config(&room) called directly in task w
GetRoomConfig(w) ==
    /\ Free(w)
    /\ direct < MaxDirect
    /\ direct' = direct + 1
    /\ CallGet(w)
    /\ UNCHANGED <<tags, room, histVars, authVars, pingVars, httpVars, handlerVars>>

---------------------------------------------------------------------------
(* SpecStore: set_room_config and get_room_config called one after another *)
(* on one room by one task, from every initial tag state, every read and   *)
(* every tag call free to fail.                                            *)

StoreInit ==
    /\ AuthIdle
    /\ PingIdle
    /\ HttpIdle
    /\ TaskIdle
    /\ room = RoomA
    /\ direct = 0
    /\ \E ts \in InitTagSets : tags = [r \in RoomIds |-> IF r = room THEN ts ELSE {}]
    /\ op = "none"
    /\ arg = DefaultConfig
    /\ ret = DefaultConfig
    /\ before = {}

StoreNext ==
    \/ \E config \in Configs : SetRoomConfig(ChatTask, config)
    \/ GetRoomConfig(ChatTask)
    \/ GetRead(ChatTask)
    \/ WriterBlock(ChatTask)
    \/ WriterRead(ChatTask)
    \/ WriterCall(ChatTask)

SpecStore == StoreInit /\ [][StoreNext]_vars

---------------------------------------------------------------------------
(* Claims on the room configuration store                                  *)

\* the tags of the reserved namespace dev.pokem.*
Reserved(ts) ==
    {t \in ts : t = BlockTag \/ starts_with(t, AuthPrefix) \/ starts_with(t, PassPrefix)}

AuthTagsOf(ts) == {t \in ts : BeginsWith(t, AuthPrefix)}
PassTagsOf(ts) == {t \in ts : BeginsWith(t, PassPrefix)}

\* the store call of task w is over
Ended(w) == w_pc[w] \in {"done", "panicked"}

\* the last store call of the one task of SpecStore was a set_room_config
\* that returned, every read and every tag call of it having succeeded
SetRanClean ==
    /\ w_pc[ChatTask] = "done"
    /\ op = "set"
    /\ w_calls[ChatTask] = set_room_config_calls(before, arg, TRUE)

\* ... a get_room_config that returned, every read and every tag call of it
\* having succeeded
GetRanClean ==
    /\ w_pc[ChatTask] = "done"
    /\ op = "get"
    /\ w_calls[ChatTask] = get_room_config(before, TRUE, TRUE).calls

\* C1: round trip.  After set_room_config(room, cfg) has run to completion
\* (once or repeatedly), get_room_config(room) returns exactly cfg.
C1_RoundTrip ==
    SetRanClean => get_room_config(tags[room], TRUE, TRUE).config = arg

\* C2: legacy migration.  A get on a room whose only reserved tag is
\* dev.pokem.pass.X returns auth = X and leaves dev.pokem.auth.X and no pass
\* tag; a second get returns the same config and changes nothing.
C2_LegacyMigration ==
    \A X \in Tokens :
        (GetRanClean /\ Reserved(before) = {PassPrefix \o X}) =>
            /\ ret.auth = Some(X)
            /\ (AuthPrefix \o X) \in tags[room]
            /\ \A t \in tags[room] : ~starts_with(t, PassPrefix)
            /\ get_room_config(tags[room], TRUE, TRUE).config = ret
            /\ get_room_config(tags[room], TRUE, TRUE).tags = tags[room]

\* C19: a completed set_room_config(room, cfg) leaves dev.pokem.block present
\* iff cfg.block, no dev.pokem.pass.* tag, and exactly the one tag
\* dev.pokem.auth.<token> when cfg.auth is a token (none when it is None);
\* the same set repeated makes no tag call in the auth/legacy namespace.
C19_SetPostState ==
    SetRanClean =>
        /\ (BlockTag \in tags[room]) <=> arg.block
        /\ \A t \in tags[room] : ~BeginsWith(t, PassPrefix)
        /\ {t \in tags[room] : BeginsWith(t, AuthPrefix)} =
              (IF IsSome(arg.auth) THEN {AuthPrefix \o Unwrap(arg.auth)} ELSE {})
        /\ LET again == set_room_config_calls(tags[room], arg, TRUE)
           IN  \A i \in 1..Len(again) : again[i].tag = BlockTag

\* C20 as claimed: get_room_config returns a RoomConfig for every tag state
\* and every outcome of the tag operations, the failing migration write
\* included; with no reserved tag it returns block=false, auth=None.
C20_ReadNeverFails ==
    /\ op # "get panicked"
    /\ (op \in {"get", "get, read failed"} /\ Reserved(before) = {})
          => ret = DefaultConfig

\* C20 amended: get_room_config returns a RoomConfig for every tag state and
\* every outcome of the tag read, block=false and auth=None when the read
\* failed; it fails to return only when a legacy dev.pokem.pass.* tag made
\* it run the migration and a tag write of the migration failed.  With no
\* reserved tag it returns block=false, auth=None and writes nothing.
C20_ReadFailsOnlyInMigration ==
    /\ op = "get panicked" => \E t \in before : BeginsWith(t, PassPrefix)
    /\ op = "get, read failed" => ret = DefaultConfig
    /\ (op \in {"get", "get, read failed", "get panicked"} /\ Reserved(before) = {}) =>
          /\ op # "get panicked"
          /\ ret = DefaultConfig
          /\ Ended(ChatTask) => w_calls[ChatTask] = <<>> /\ tags[room] = before

\* C20 witness: a get whose migration write failed, after the legacy tag
\* was read.
C20_Witness ==
    /\ op = "get panicked"
    /\ \E t \in before : BeginsWith(t, PassPrefix)

---------------------------------------------------------------------------
(* Claims on the mapping from tags to the config                           *)

TokenPrefixOf(t) == IF BeginsWith(t, AuthPrefix) THEN AuthPrefix ELSE PassPrefix

TokenTagsOf(ts) == AuthTagsOf(ts) \cup PassTagsOf(ts)

\* the token tag the scan of a BTreeMap meets first: the least one
FirstTokenTag(ts) ==
    CHOOSE t \in TokenTagsOf(ts) : \A u \in TokenTagsOf(ts) \ {t} : LexLess(t, u)

RECURSIVE Copies(_, _)
Copies(p, n) == IF n = 0 THEN <<>> ELSE p \o Copies(p, n - 1)

\* tok is what follows the leading copies of the tag's own prefix
SuffixToken(t, tok) ==
    \E n \in 1..3 : t = Copies(TokenPrefixOf(t), n) \o tok

\* C30: get_room_config on the tags ts: block is true iff dev.pokem.block
\* is in ts; auth is None iff ts holds no dev.pokem.auth.* and no
\* dev.pokem.pass.* tag; otherwise the token returned is read from the
\* first token tag in scan order and is a suffix of that stored tag.  ts
\* are the tags the read of line 58 handed to the loop (op = "get"); a failed
\* read hands it no tags.
C30_TagsToConfig ==
    op = "get" =>
        /\ ret.block <=> BlockTag \in before
        /\ ret.auth = None <=> TokenTagsOf(before) = {}
        /\ TokenTagsOf(before) # {} =>
              /\ IsSome(ret.auth)
              /\ SuffixToken(FirstTokenTag(before), Unwrap(ret.auth))

\* C30 witness: two token tags carrying different tokens, the get returned
\* the token of the first in scan order and not that of the other
C30_Witness ==
    /\ op = "get"
    /\ Cardinality(TokenTagsOf(before)) = 2
    /\ IsSome(ret.auth)
    /\ SuffixToken(FirstTokenTag(before), Unwrap(ret.auth))
    /\ \E u \in TokenTagsOf(before) : ~SuffixToken(u, Unwrap(ret.auth))

---------------------------------------------------------------------------
(* Claims on the writes of a read                                          *)

\* a get_room_config has ended in the one task of SpecStore, by returning
\* or by the panic of a tag call
GetEnded ==
    /\ Ended(ChatTask)
    /\ op \in {"get", "get, read failed", "get panicked"}

\* C38: get_room_config makes no tag call when the room holds no
\* dev.pokem.pass.* tag, several dev.pokem.auth.* tags or not: the tag set
\* is the same before and after; it writes, through set_room_config, only
\* when it read at least one pass tag, and then it does.
C38_GetWritesOnlyForLegacy ==
    GetEnded =>
        /\ PassTagsOf(before) = {} =>
              /\ w_calls[ChatTask] = <<>>
              /\ tags[room] = before
              /\ op # "get panicked"
        /\ w_calls[ChatTask] # <<>> => PassTagsOf(before) # {} /\ op # "get, read failed"
        /\ (op = "get" /\ PassTagsOf(before) # {}) =>
              /\ w_calls[ChatTask] # <<>>
              /\ tags[room] = ApplyCalls(before, w_calls[ChatTask])

\* C38 witness: the get found two auth tags and no pass tag and left both
C38_Witness ==
    /\ GetEnded
    /\ op = "get"
    /\ Cardinality(AuthTagsOf(before)) = 2
    /\ PassTagsOf(before) = {}
    /\ tags[room] = before

---------------------------------------------------------------------------
(* SpecRace: two set_room_config calls on one room, each in a task of its  *)
(* own, their steps interleaving freely; a call ends early when one of its *)
(* tag calls fails.  When both calls are over, get_room_config runs once.  *)
(* `before` holds the room's tags when the calls began, and after the get  *)
(* the tags the get found.                                                 *)

RaceTokenA == <<"a">>
RaceTokenB == <<"b">>
RaceConfigs ==
    {RoomConfig(b, a) : b \in BOOLEAN,
                        a \in {None, Some(RaceTokenA), Some(RaceTokenB)}}
RaceTagUniverse ==
    {BlockTag, AuthPrefix \o RaceTokenA, AuthPrefix \o RaceTokenB,
     PassPrefix \o <<"c">>, PassPrefix \o AuthPrefix \o RaceTokenA}
RaceTagSets == SUBSET RaceTagUniverse

RaceInit ==
    /\ AuthIdle
    /\ PingIdle
    /\ HttpIdle
    /\ room = RoomA
    /\ direct = 0
    /\ \E ts \in RaceTagSets :
          /\ tags = [r \in RoomIds |-> IF r = room THEN ts ELSE {}]
          /\ before = ts
          /\ w_before = [w \in Tasks |-> ts]
    /\ op = "none"
    /\ arg = DefaultConfig
    /\ ret = DefaultConfig
    /\ w_pc = [w \in Tasks |-> "start"]
    /\ w_in = [w \in Tasks |-> "set"]
    /\ w_config \in [Tasks -> RaceConfigs]
    /\ w_todo = [w \in Tasks |-> <<>>]
    /\ w_calls = [w \in Tasks |-> <<>>]
    /\ w_overlap = FALSE
    /\ read_err = FALSE
    /\ w_cmd = [w \in Tasks |-> <<>>]
    /\ w_resp = [w \in Tasks |-> <<>>]
    /\ w_seen = [w \in Tasks |-> None]

\* get_room_config(&room), called once both set_room_config calls are over
RaceGet ==
    /\ direct = 0
    /\ \A w \in Tasks : w_pc[w] \in {"done", "panicked"}
    /\ GetRoomConfig(ChatTask)

RaceNext ==
    \/ \E w \in Tasks : WriterBlock(w)
    \/ \E w \in Tasks : WriterRead(w)
    \/ \E w \in Tasks : WriterCall(w)
    \/ RaceGet
    \/ GetRead(ChatTask)

SpecRace == RaceInit /\ [][RaceNext]_vars

---------------------------------------------------------------------------
(* Claims on concurrent and interrupted writers                            *)

\* both set_room_config calls have returned and the get has not begun
AllDone == direct = 0 /\ \A w \in Tasks : w_pc[w] = "done"

\* the room's tags after the two calls ran one after the other, v then w,
\* from the tags ts, the reads of line 28 succeeding
InOrder(ts, v, w) ==
    set_room_config(set_room_config(ts, w_config[v], TRUE), w_config[w], TRUE)

Sequential == {InOrder(before, ChatTask, PingTask), InOrder(before, PingTask, ChatTask)}

\* the same when the read of line 28 failed in either call or in both
InOrderAnyRead(ts, v, w) ==
    {set_room_config(set_room_config(ts, w_config[v], rd1), w_config[w], rd2) :
        rd1 \in ReadOutcomes, rd2 \in ReadOutcomes}

SequentialAnyRead ==
    InOrderAnyRead(before, ChatTask, PingTask) \cup InOrderAnyRead(before, PingTask, ChatTask)

\* the two calls set different tokens
TwoTokens ==
    /\ IsSome(w_config[ChatTask].auth)
    /\ IsSome(w_config[PingTask].auth)
    /\ w_config[ChatTask].auth # w_config[PingTask].auth

\* C28: two set_room_config calls on one room take no lock: the result of
\* neither sequential order comes about only when the tag operations of the
\* two calls interleaved (calls that did not overlap leave the result of
\* one of the two orders); for tokens A # B it does come about, and the
\* auth tags then left are any of dev.pokem.auth.A and dev.pokem.auth.B:
\* one, both or none.
C28_NonLinearizable ==
    AllDone =>
        /\ (~w_overlap /\ ~read_err) => tags[room] \in Sequential
        /\ ~w_overlap => tags[room] \in SequentialAnyRead
        /\ TwoTokens =>
              AuthTagsOf(tags[room]) \subseteq
                  {AuthPrefix \o RaceTokenA, AuthPrefix \o RaceTokenB}

\* C28 witness: both calls returned, tokens a and b, and the room holds
\* dev.pokem.auth.a and dev.pokem.auth.b, the result of neither order
C28_Witness ==
    /\ AllDone
    /\ TwoTokens
    /\ w_overlap
    /\ ~read_err
    /\ tags[room] \notin Sequential
    /\ AuthTagsOf(tags[room]) = {AuthPrefix \o RaceTokenA, AuthPrefix \o RaceTokenB}

\* both calls returned, tokens a and b, and no auth tag is left
C28_NoAuthLeft ==
    /\ AllDone
    /\ TwoTokens
    /\ ~read_err
    /\ tags[room] \notin Sequential
    /\ AuthTagsOf(tags[room]) = {}

\* the get that followed the writers has ended
GotAfterWriters ==
    /\ direct = 1
    /\ Ended(ChatTask)
    /\ op \in {"get", "get, read failed", "get panicked"}

\* C29 as stated: after the get that follows interrupted or interleaved
\* writers the room holds no dev.pokem.pass.* tag and at most one
\* dev.pokem.auth.* tag.
C29_SelfHealing ==
    (GotAfterWriters /\ op = "get" /\ ~read_err) =>
        /\ PassTagsOf(tags[room]) = {}
        /\ Cardinality(AuthTagsOf(tags[room])) <= 1

\* C29 amended: the get rewrites the tags only when it read a
\* dev.pokem.pass.* tag: then, its reads and tag calls succeeding, no pass
\* tag is left and every auth tag left is dev.pokem.auth.<returned token> or
\* a tag that set_room_config reads as the returned token; with no pass tag
\* the get changes nothing, whatever auth tags the writers left.
C29_HealsLegacyOnly ==
    GotAfterWriters =>
        /\ (PassTagsOf(before) # {} /\ op = "get" /\ ~read_err) =>
              /\ PassTagsOf(tags[room]) = {}
              /\ IsSome(ret.auth)
              /\ \A t \in AuthTagsOf(tags[room]) :
                    \/ t = AuthPrefix \o Unwrap(ret.auth)
                    \/ trim_start_matches(t, AuthPrefix) = Unwrap(ret.auth)
        /\ PassTagsOf(before) = {} =>
              /\ tags[room] = before
              /\ w_calls[ChatTask] = <<>>

\* C29 witness: a writer panicked part-way, the get found a pass tag next to
\* two auth tags and left one auth tag and no pass tag
C29_Witness ==
    /\ GotAfterWriters
    /\ op = "get"
    /\ ~read_err
    /\ w_pc[PingTask] = "panicked"
    /\ PassTagsOf(before) # {}
    /\ Cardinality(AuthTagsOf(before)) = 2
    /\ PassTagsOf(tags[room]) = {}
    /\ Cardinality(AuthTagsOf(tags[room])) = 1

\* two auth tags left by the writers are still there after the get
C29_StaleAuthStays ==
    /\ GotAfterWriters
    /\ op = "get"
    /\ ~read_err
    /\ PassTagsOf(before) = {}
    /\ Cardinality(AuthTagsOf(tags[room])) = 2

---------------------------------------------------------------------------
(* The delivery pipeline ping_room, src/utils.rs lines 172-224, one await  *)
(* a step.  Its call of get_room_config runs in the task PingTask.         *)

JoinDelayStart == 2
JoinDelayMax == 60

ErrRoomNotFound == "Failed to find room with name"
ErrJoinTimeout == "Failed to join room"
ErrAuthRejected == "Incorrect Authentication Token"
ErrSend == "Failed to send message"

\* (mutant) the resolved room goes to the auth gate without the join-wait
Resolve_no_wait ==
    /\ p_pc = "Resolving"
    /\ LET r == get_room_from_name(roomState, p_name)
       IN  IF r = None
           THEN /\ p_result' = ErrRoomNotFound
                /\ p_pc' = "Returned"
                /\ UNCHANGED <<p_room, p_delay>>
           ELSE /\ p_room' = r
                /\ p_delay' = JoinDelayStart
                /\ p_pc' = "Authorizing"
                /\ UNCHANGED p_result
    /\ UNCHANGED <<tags, storeVars, authVars, httpVars, taskVars, roomState, members, reply, p_name,
                   p_headers, p_message, p_mention, p_slept, p_msg, p_seen, p_allowed, sent>>

\* ping_room, lines 179-190
Resolve ==
    /\ p_pc = "Resolving"
    /\ LET r == get_room_from_name(roomState, p_name)
       IN  IF r = None
           THEN /\ p_result' = ErrRoomNotFound
                /\ p_pc' = "Returned"
                /\ UNCHANGED <<p_room, p_delay>>
           ELSE /\ p_room' = r
                /\ p_delay' = JoinDelayStart
                /\ p_pc' = "AwaitingJoin"
                /\ UNCHANGED p_result
    /\ UNCHANGED <<tags, storeVars, authVars, httpVars, taskVars, roomState, members, reply, p_name,
                   p_headers, p_message, p_mention, p_slept, p_msg, p_seen, p_allowed, sent>>

\* (mutant) the timeout is tested before the room's state is looked at again
JoinWait_timeout_first ==
    /\ p_pc = "AwaitingJoin"
    /\ IF p_delay > JoinDelayMax
       THEN /\ p_result' = ErrJoinTimeout
            /\ p_pc' = "Returned"
            /\ UNCHANGED <<p_delay, p_slept>>
       ELSE IF roomState[Unwrap(p_room)] # "Invited"
            THEN /\ p_pc' = "Authorizing"
                 /\ UNCHANGED <<p_delay, p_slept, p_result>>
            ELSE /\ p_slept' = p_slept + p_delay
                 /\ p_delay' = p_delay * 2
                 /\ UNCHANGED <<p_pc, p_result>>
    /\ UNCHANGED <<tags, storeVars, authVars, httpVars, taskVars, roomState, members, reply, p_name,
                   p_headers, p_message, p_mention, p_room, p_msg, p_seen, p_allowed, sent>>

\* (mutant) the delay grows by 2 seconds instead of doubling
JoinWait_linear ==
    /\ p_pc = "AwaitingJoin"
    /\ IF roomState[Unwrap(p_room)] # "Invited"
       THEN /\ p_pc' = "Authorizing"
            /\ UNCHANGED <<p_delay, p_slept, p_result>>
       ELSE IF p_delay > JoinDelayMax
            THEN /\ p_result' = ErrJoinTimeout
                 /\ p_pc' = "Returned"
                 /\ UNCHANGED <<p_delay, p_slept>>
            ELSE /\ p_slept' = p_slept + p_delay
                 /\ p_delay' = p_delay + 2
                 /\ UNCHANGED <<p_pc, p_result>>
    /\ UNCHANGED <<tags, storeVars, authVars, httpVars, taskVars, roomState, members, reply, p_name,
                   p_headers, p_message, p_mention, p_room, p_msg, p_seen, p_allowed, sent>>

\* ping_room, lines 191-197: one test of the loop condition and, when the
\* room is still invited, the timeout test, the sleep and the doubling
JoinWait ==
    /\ p_pc = "AwaitingJoin"
    /\ IF roomState[Unwrap(p_room)] # "Invited"
       THEN /\ p_pc' = "Authorizing"
            /\ UNCHANGED <<p_delay, p_slept, p_result>>
       ELSE IF p_delay > JoinDelayMax
            THEN /\ p_result' = ErrJoinTimeout
                 /\ p_pc' = "Returned"
                 /\ UNCHANGED <<p_delay, p_slept>>
            ELSE /\ p_slept' = p_slept + p_delay
                 /\ p_delay' = p_delay * 2
                 /\ UNCHANGED <<p_pc, p_result>>
    /\ UNCHANGED <<tags, storeVars, authVars, httpVars, taskVars, roomState, members, reply, p_name,
                   p_headers, p_message, p_mention, p_room, p_msg, p_seen, p_allowed, sent>>

\* ping_room, line 201: the call of get_room_config
PingGet ==
    /\ p_pc = "Authorizing"
    /\ w_pc[PingTask] = "off"
    /\ CallGet(PingTask)
    /\ UNCHANGED <<tags, storeVars, authVars, pingVars, httpVars, handlerVars>>

\* (mutant) the rejection is recorded but ping_room does not return
Authorize_no_return ==
    /\ p_pc = "Authorizing"
    /\ w_pc[PingTask] = "done"
    /\ LET v == validate_authentication(w_config[PingTask], p_headers, p_message)
       IN  /\ p_pc' = "Sending"
           /\ IF IsSome(v)
              THEN /\ p_msg' = Unwrap(v)
                   /\ UNCHANGED p_result
              ELSE /\ p_result' = ErrAuthRejected
                   /\ UNCHANGED p_msg
    /\ UNCHANGED <<tags, storeVars, authVars, httpVars, taskVars, roomState, members, reply, p_name,
                   p_headers, p_message, p_mention, p_room, p_delay, p_slept,
                   p_seen, p_allowed, sent>>

\* ping_room, lines 201-208: get_room_config has returned room_config; the
\* auth gate
Authorize ==
    /\ p_pc = "Authorizing"
    /\ w_pc[PingTask] = "done"
    /\ LET v == validate_authentication(w_config[PingTask], p_headers, p_message)
       IN  IF IsSome(v)
           THEN /\ p_msg' = Unwrap(v)
                /\ p_pc' = "Sending"
                /\ UNCHANGED p_result
           ELSE /\ p_result' = ErrAuthRejected
                /\ p_pc' = "Returned"
                /\ UNCHANGED p_msg
    /\ UNCHANGED <<tags, storeVars, authVars, httpVars, taskVars, roomState, members, reply, p_name,
                   p_headers, p_message, p_mention, p_room, p_delay, p_slept,
                   p_seen, p_allowed, sent>>

\* the content ping_room builds, lines 210-214
Content ==
    IF p_mention THEN add_room_mention(format_message(p_headers, p_msg))
    ELSE format_message(p_headers, p_msg)

\* ping_room, lines 210-216 and 220-223: the send-allowed check; a refused
\* send is logged and ping_room returns Ok(())
CheckPolicy ==
    /\ p_pc = "Sending"
    /\ \E rd \in ReadOutcomes :
          LET r == Unwrap(p_room)
              can == can_message_room(r, tags[r], rd)
          IN  /\ read_err' = (read_err \/ (r # ExampleRoom /\ ~rd))
              /\ p_seen' = Some(IF r = ExampleRoom THEN tags[r] ELSE TagsRead(tags[r], rd))
              /\ p_allowed' = can
              /\ IF can
                 THEN /\ p_pc' = "Submitting"
                      /\ UNCHANGED p_result
                 ELSE /\ p_result' = "Ok"
                      /\ p_pc' = "Returned"
    /\ UNCHANGED <<tags, storeVars, authVars, httpVars, w_pc, handlerVars, callRest,
                   roomState, members, reply, p_name,
                   p_headers, p_message, p_mention, p_room, p_delay, p_slept,
                   p_msg, sent>>

\* ping_room, lines 217-219 and 223: r.send(msg)
Submit ==
    /\ p_pc = "Submitting"
    /\ \E ok \in SendOutcomes :
          IF ok
          THEN /\ sent' = Some([room |-> Unwrap(p_room), content |-> Content])
               /\ p_result' = "Ok"
          ELSE /\ p_result' = ErrSend
               /\ UNCHANGED sent
    /\ p_pc' = "Returned"
    /\ UNCHANGED <<tags, storeVars, authVars, httpVars, taskVars, roomState, members, reply, p_name,
                   p_headers, p_message, p_mention, p_room, p_delay, p_slept,
                   p_msg, p_seen, p_allowed>>

\* a step of the delivery, the steps of its get_room_config included
PingStep ==
    \/ Resolve
    \/ JoinWait
    \/ PingGet
    \/ GetRead(PingTask)
    \/ WriterBlock(PingTask)
    \/ WriterRead(PingTask)
    \/ WriterCall(PingTask)
    \/ Authorize
    \/ CheckPolicy
    \/ Submit

---------------------------------------------------------------------------
(* Text helpers of the HTTP side                                           *)

\* str::split(sep): the pieces between the separators, in order
RECURSIVE Split(_, _)
Split(s, sep) ==
    IF \A i \in 1..Len(s) : s[i] # sep THEN <<s>>
    ELSE LET i == CHOOSE k \in 1..Len(s) :
                      s[k] = sep /\ \A m \in 1..(k - 1) : s[m] # sep
         IN  <<SubSeq(s, 1, i - 1)>> \o Split(SubSeq(s, i + 1, Len(s)), sep)

Digits == <<"0","1","2","3","4","5","6","7","8","9">>
IsDigit(c) == \E i \in 1..10 : Digits[i] = c
DigitVal(c) == (CHOOSE i \in 1..10 : Digits[i] = c) - 1

\* the value of a string of digits
RECURSIVE DecimalValue(_)
DecimalValue(ds) ==
    IF ds = <<>> THEN 0
    ELSE 10 * DecimalValue(SubSeq(ds, 1, Len(ds) - 1)) + DigitVal(ds[Len(ds)])

\* str::parse::<u8>(): an optional '+', then digits, value at most 255
parse_u8(s) ==
    LET ds == IF s # <<>> /\ s[1] = "+" THEN Tail(s) ELSE s
    IN  IF ds = <<>> \/ \E i \in 1..Len(ds) : ~IsDigit(ds[i]) THEN None
        ELSE IF DecimalValue(ds) > 255 THEN None
        ELSE Some(DecimalValue(ds))

IsHex(c) == \E i \in 1..16 : HexDigits[i] = c \/ LowerChar(HexDigits[i]) = c
HexVal(c) == (CHOOSE i \in 1..16 : HexDigits[i] = c \/ LowerChar(HexDigits[i]) = c) - 1

\* percent-decoding to bytes: %XX with two hex digits is the byte XX, every
\* other character stands for its own bytes
RECURSIVE PercentBytes(_)
PercentBytes(s) ==
    IF s = <<>> THEN <<>>
    ELSE IF s[1] = "%" /\ Len(s) >= 3 /\ IsHex(s[2]) /\ IsHex(s[3])
         THEN <<16 * HexVal(s[2]) + HexVal(s[3])>>
                 \o PercentBytes(SubSeq(s, 4, Len(s)))
         ELSE CharBytes(s[1]) \o PercentBytes(Tail(s))

\* urlencoding::decode: the percent-decoded bytes as a String, Err (None)
\* when they are not UTF-8
urlencoding_decode(s) == from_utf8(PercentBytes(s))

\* form_urlencoded decoding of a name or a value: '+' is a space, %XX a
\* byte, and the bytes are read as UTF-8 lossily
form_decode(s) ==
    from_utf8_lossy(
        PercentBytes([i \in 1..Len(s) |-> IF s[i] = "+" THEN " " ELSE s[i]]))
---------------------------------------------------------------------------
(* The request normalizer, src/daemon.rs PokeRequest::from_request         *)

\* the header names the program reads, and `topic`, which it does not
HeaderNames ==
    {"x-title", "title", "ti", "t", "x-message", "message", "m",
     "x-priority", "priority", "prio", "p", "x-tags", "tags", "tag", "ta",
     "authentication", "auth", "format", "topic"}

\* a HeaderMap: each name has no value (None) or its first value
HeaderMap(given) ==
    [n \in HeaderNames |-> IF n \in DOMAIN given THEN Some(given[n]) ELSE None]

\* headers.get(n1).or_else(|| headers.get(n2))...: the value of the first
\* name of the list that is present
RECURSIVE FirstHeader(_, _)
FirstHeader(headers, names) ==
    IF names = <<>> THEN None
    ELSE IF IsSome(headers[Head(names)]) THEN headers[Head(names)]
    ELSE FirstHeader(headers, Tail(names))

\* ....and_then(|v| v.to_str().ok().map(String::from))
HeaderText(headers, names) ==
    LET v == FirstHeader(headers, names)
    IN  IF IsSome(v) THEN to_str(Unwrap(v)) ELSE None

\* JSON values as serde_json reads them; an object is the sequence of its
\* members as written, so that a name may come twice
JString(x) == [t |-> "string", s |-> x, n |-> 0, a |-> <<>>]
JNumber(x) == [t |-> "number", s |-> <<>>, n |-> x, a |-> <<>>]
JNull == [t |-> "null", s |-> <<>>, n |-> 0, a |-> <<>>]
JArray(xs) == [t |-> "array", s |-> <<>>, n |-> 0, a |-> xs]
JMember(name, value) == [name |-> name, value |-> value]
JObject(fields) == [t |-> "object", s |-> <<>>, n |-> 0, a |-> fields]

\* struct PokeRequest, lines 32-39
PokeRequest(topic, title, message, priority, shortcodes) ==
    [topic |-> topic, title |-> title, message |-> message,
     priority |-> priority, tags |-> shortcodes]

\* the fields of PokeRequest in the order of their declaration
PokeFields == <<"topic", "title", "message", "priority", "tags">>

\* the derived visit_map: a field given twice is an Err (None); unknown
\* names are skipped; a field left out reads as null does
MapSlots(fields) ==
    IF \E i, j \in 1..Len(fields) :
          /\ i < j
          /\ fields[i].name = fields[j].name
          /\ \E k \in 1..Len(PokeFields) : PokeFields[k] = fields[i].name
    THEN None
    ELSE Some([k \in 1..Len(PokeFields) |->
                 IF \E i \in 1..Len(fields) : fields[i].name = PokeFields[k]
                 THEN fields[CHOOSE i \in 1..Len(fields) :
                                  fields[i].name = PokeFields[k]].value
                 ELSE JNull])

\* the derived visit_seq: the elements of an array are the fields in the
\* order of their declaration; fewer or more elements are an Err (None)
SeqSlots(elements) ==
    IF Len(elements) = Len(PokeFields) THEN Some(elements) ELSE None

\* the values of the fields as a JSON value gives them: an object by name,
\* an array by position, any other value is an Err (None)
FieldSlots(json) ==
    IF json.t = "object" THEN MapSlots(json.a)
    ELSE IF json.t = "array" THEN SeqSlots(json.a)
    ELSE None

\* a value read as String, as Option<String>, as Option<u8> (top 255) and
\* as Option<Vec<String>>
ReadsString(v) == v.t = "string"
ReadsOptString(v) == v.t \in {"null", "string"}
ReadsOptNumber(v, top) == v.t = "null" \/ (v.t = "number" /\ v.n \in 0..top)
ReadsOptStrings(v) ==
    v.t = "null" \/ (v.t = "array" /\ \A i \in 1..Len(v.a) : v.a[i].t = "string")

\* the PokeRequest of the slots, Err (None) when a slot is ill-typed (a
\* String field left out is one)
PokeOfSlots(slots, top) ==
    IF /\ ReadsString(slots[1])
       /\ ReadsOptString(slots[2])
       /\ ReadsString(slots[3])
       /\ ReadsOptNumber(slots[4], top)
       /\ ReadsOptStrings(slots[5])
    THEN Some(PokeRequest(
            slots[1].s,
            IF slots[2].t = "null" THEN None ELSE Some(slots[2].s),
            slots[3].s,
            IF slots[4].t = "null" THEN None ELSE Some(slots[4].n),
            IF slots[5].t = "null" THEN None
            ELSE Some([i \in 1..Len(slots[5].a) |-> slots[5].a[i].s])))
    ELSE None

\* (mutant) priority declared Option<u16>
deserialize_PokeRequest_u16(json) ==
    IF IsSome(FieldSlots(json)) THEN PokeOfSlots(Unwrap(FieldSlots(json)), 65535)
    ELSE None

\* serde_json::from_str::<PokeRequest> on the JSON value of the body, lines
\* 32-39 and 51
deserialize_PokeRequest(json) ==
    IF IsSome(FieldSlots(json)) THEN PokeOfSlots(Unwrap(FieldSlots(json)), 255)
    ELSE None

\* a request body: its bytes (as a byte string) and the JSON value they
\* denote when they are a JSON text
Body(bytes, json) == [bytes |-> bytes, json |-> json]

\* one name=value piece of a query string
QueryPair(piece) ==
    LET kv == Split(piece, "=")
    IN  <<to_lowercase(form_decode(kv[1])),
          form_decode(IF Len(kv) = 1 THEN <<>>
                      ELSE SubSeq(piece, Len(kv[1]) + 2, Len(piece)))>>

\* lines 54-61: form_urlencoded::parse(query) collected into a HashMap with
\* lower-cased keys; of a key given twice the last value stays
RECURSIVE QueryFold(_, _)
QueryFold(pieces, key) ==
    IF pieces = <<>> THEN None
    ELSE LET last == pieces[Len(pieces)]
         IN  IF last # <<>> /\ QueryPair(last)[1] = key
             THEN Some(QueryPair(last)[2])
             ELSE QueryFold(SubSeq(pieces, 1, Len(pieces) - 1), key)

\* query_params.get(key)
query_get(query, key) ==
    IF IsSome(query) THEN QueryFold(Split(Unwrap(query), "&"), key) ELSE None

\* (mutant) the names of a priority header matched without to_lowercase
priority_of_header_exact_case(header_str) ==
    IF IsSome(parse_u8(header_str)) THEN Unwrap(parse_u8(header_str))
    ELSE IF header_str = <<"m","i","n">> THEN 1
    ELSE IF header_str = <<"l","o","w">> THEN 2
    ELSE IF header_str = <<"d","e","f","a","u","l","t">> THEN 3
    ELSE IF header_str = <<"h","i","g","h">> THEN 4
    ELSE IF header_str = <<"u","r","g","e","n","t">> \/ header_str = <<"m","a","x">> THEN 5
    ELSE 3

\* lines 93-104: the value of a priority header
priority_of_header(header_str) ==
    IF IsSome(parse_u8(header_str)) THEN Unwrap(parse_u8(header_str))
    ELSE LET name == to_lowercase(header_str)
         IN  IF name = <<"m","i","n">> THEN 1
             ELSE IF name = <<"l","o","w">> THEN 2
             ELSE IF name = <<"d","e","f","a","u","l","t">> THEN 3
             ELSE IF name = <<"h","i","g","h">> THEN 4
             ELSE IF name = <<"u","r","g","e","n","t">> \/ name = <<"m","a","x">> THEN 5
             ELSE 3

\* str::trim_start_matches('/')
RECURSIVE trim_slashes(_)
trim_slashes(s) == IF s # <<>> /\ s[1] = "/" THEN trim_slashes(Tail(s)) ELSE s

\* lines 51-119: the PokeRequest built from the query, the headers and the
\* body (which is UTF-8 here) when the body is no PokeRequest in JSON
build_from_headers(request) ==
    LET q == request.query
        h == request.headers
        title == IF IsSome(query_get(q, <<"t","i","t","l","e">>))
                 THEN query_get(q, <<"t","i","t","l","e">>)
                 ELSE HeaderText(h, <<"x-title", "title", "ti", "t">>)
        message == IF IsSome(query_get(q, <<"m","e","s","s","a","g","e">>))
                   THEN query_get(q, <<"m","e","s","s","a","g","e">>)
                   ELSE HeaderText(h, <<"x-message", "message", "m">>)
        qprio == query_get(q, <<"p","r","i","o","r","i","t","y">>)
        hprio == HeaderText(h, <<"x-priority", "priority", "prio", "p">>)
        priority == IF IsSome(qprio) /\ IsSome(parse_u8(Unwrap(qprio)))
                    THEN parse_u8(Unwrap(qprio))
                    ELSE IF IsSome(hprio)
                         THEN Some(priority_of_header(Unwrap(hprio)))
                         ELSE None
        tagstr == IF IsSome(query_get(q, <<"t","a","g","s">>))
                  THEN query_get(q, <<"t","a","g","s">>)
                  ELSE HeaderText(h, <<"x-tags", "tags", "tag", "ta">>)
    IN  PokeRequest(
            trim_slashes(request.path),
            title,
            IF IsSome(message) THEN Unwrap(message)
            ELSE Unwrap(from_utf8(StrBytes(request.body.bytes))),
            priority,
            IF IsSome(tagstr) THEN Some(Split(Unwrap(tagstr), ",")) ELSE None)

\* (mutant) the JSON deserialization is skipped
from_request_no_json(request, collected) ==
    IF ~collected THEN None
    ELSE IF from_utf8(StrBytes(request.body.bytes)) = None THEN None
    ELSE Some(build_from_headers(request))

\* PokeRequest::from_request, lines 43-122; `collected` is whether
\* request.collect().await gave the body. Err (None) when it did not and
\* when the body is not UTF-8, the JSON PokeRequest when the body is one,
\* else the one built from the query, the headers and the body
from_request(request, collected) ==
    IF ~collected THEN None
    ELSE IF from_utf8(StrBytes(request.body.bytes)) = None THEN None
    ELSE IF IsSome(request.body.json)
            /\ IsSome(deserialize_PokeRequest(Unwrap(request.body.json)))
         THEN deserialize_PokeRequest(Unwrap(request.body.json))
         ELSE Some(build_from_headers(request))
---------------------------------------------------------------------------
(* The HTTP handler, src/daemon.rs daemon_poke                             *)

\* U+FE0F VARIATION SELECTOR-16, which ends the glyphs that have a text
\* presentation too
VariationSelector == CodePointChar(65039)

\* emojis::get_by_shortcode(..).as_str() on the shortcodes the inputs of the
\* model hold: the glyph of `warning`, `skull`, `a` and `b`; the other
\* strings of the inputs are no shortcode
get_by_shortcode(shortcode) ==
    IF shortcode = <<"w","a","r","n","i","n","g">>
    THEN Some(<<EmojiWarning, VariationSelector>>)
    ELSE IF shortcode = <<"s","k","u","l","l">> THEN Some(<<EmojiSkull>>)
    ELSE IF shortcode = <<"a">> THEN Some(<<CodePointChar(127344), VariationSelector>>)
    ELSE IF shortcode = <<"b">> THEN Some(<<CodePointChar(127345), VariationSelector>>)
    ELSE None

\* lines 402-411: the glyphs of the known shortcodes, joined by ""
RECURSIVE emojis_str(_)
emojis_str(shortcodes) ==
    IF shortcodes = <<>> THEN <<>>
    ELSE (IF IsSome(get_by_shortcode(Head(shortcodes)))
          THEN Unwrap(get_by_shortcode(Head(shortcodes))) ELSE <<>>)
         \o emojis_str(Tail(shortcodes))

\* lines 396-399: format!("**{title}**\n\n{}", message)
with_title(poke) ==
    IF IsSome(poke.title)
    THEN <<"*","*">> \o Unwrap(poke.title) \o <<"*","*","\n","\n">> \o poke.message
    ELSE poke.message

\* (mutant) the space is added even when no glyph resolved
with_emojis_always_space(poke, message) ==
    IF IsSome(poke.tags)
    THEN emojis_str(Unwrap(poke.tags)) \o <<" ">> \o message
    ELSE message

\* lines 401-415: format!("{emojis_str} {}", message) when a glyph resolved
with_emojis(poke, message) ==
    IF IsSome(poke.tags) /\ emojis_str(Unwrap(poke.tags)) # <<>>
    THEN emojis_str(Unwrap(poke.tags)) \o <<" ">> \o message
    ELSE message

\* the message daemon_poke hands to ping_room
decorated_message(poke) == with_emojis(poke, with_title(poke))

\* (mutant) urgent from priority 3 (default) on
is_urgent_from_default(poke) == IsSome(poke.priority) /\ Unwrap(poke.priority) > 2

\* (mutant) the topic used as it stands, without urlencoding::decode
decoded_topic_raw(poke) == poke.topic

\* lines 388-392: the topic, percent-decoded when it decodes
decoded_topic(poke) ==
    IF IsSome(urlencoding_decode(poke.topic))
    THEN Unwrap(urlencoding_decode(poke.topic))
    ELSE poke.topic

\* (mutant) the threshold of urgency off by one
is_urgent_from_high(poke) == IsSome(poke.priority) /\ Unwrap(poke.priority) > 4

\* line 394: priority.is_some_and(|p| p > 3)
is_urgent(poke) == IsSome(poke.priority) /\ Unwrap(poke.priority) > 3

UrgentSuffix == <<"-","u","r","g","e","n","t">>

\* (mutant) the fallback of an urgent poke does not set the mention
route_no_mention(rooms, room_id, urgent) ==
    IF IsSome(rooms)
    THEN LET r == Unwrap(rooms)
         IN  IF urgent /\ (room_id \o UrgentSuffix) \in DOMAIN r
             THEN [room_id |-> r[room_id \o UrgentSuffix], mention_room |-> FALSE]
             ELSE IF room_id \in DOMAIN r
                  THEN [room_id |-> r[room_id], mention_room |-> FALSE]
                  ELSE [room_id |-> room_id, mention_room |-> FALSE]
    ELSE [room_id |-> room_id, mention_room |-> FALSE]

\* lines 417-440: the room of the nickname table and the room mention
route(rooms, room_id, urgent) ==
    IF IsSome(rooms)
    THEN LET r == Unwrap(rooms)
         IN  IF urgent /\ (room_id \o UrgentSuffix) \in DOMAIN r
             THEN [room_id |-> r[room_id \o UrgentSuffix], mention_room |-> FALSE]
             ELSE IF room_id \in DOMAIN r
                  THEN [room_id |-> r[room_id], mention_room |-> urgent]
                  ELSE [room_id |-> room_id, mention_room |-> urgent]
    ELSE [room_id |-> room_id, mention_room |-> urgent]

\* the Err daemon_poke returns through the `?` of line 386: the error of
\* request.collect(), or "error while decoding UTF-8"
ErrCollect == "Err: collect"
ErrUtf8 == "Err: error while decoding UTF-8"

StatusOK == 200
StatusNotFound == 404
\* the WebUI page of lines 443-538
Page == "page"
BodyOK == "OK"
BodyFailed == "Failed to send message"
Response(status, body) == [status |-> status, body |-> body]

\* (mutant) every result of ping_room is answered 200 'OK'
respond_always_ok(result) == Response(StatusOK, BodyOK)

\* lines 545-567: the response for the result of ping_room
respond(result) ==
    IF result = "Ok" THEN Response(StatusOK, BodyOK)
    ELSE Response(StatusNotFound, BodyFailed)

---------------------------------------------------------------------------
(* The chat commands `set` and `poke`, src/daemon.rs                       *)

\* a message the chat side sends, by its kind and the value it carries
Text(kind, info) == [kind |-> kind, info |-> info]

\* the default command prefix, src/utils.rs line 389
CommandPrefix == <<"!","p","o","k","e","m">>

\* the words of a list of pieces that are not empty
RECURSIVE NonEmpty(_)
NonEmpty(pieces) ==
    IF pieces = <<>> THEN <<>>
    ELSE (IF Head(pieces) = <<>> THEN <<>> ELSE <<Head(pieces)>>)
         \o NonEmpty(Tail(pieces))

\* str::split_whitespace: the words between runs of whitespace
split_whitespace(s) ==
    NonEmpty(Split([i \in 1..Len(s) |-> IF s[i] \in Whitespace THEN " " ELSE s[i]], " "))

\* Iterator::nth(n).unwrap_or_default() on the words (n counts from 0)
nth_or_default(words, n) == IF n < Len(words) THEN words[n + 1] ELSE <<>>

\* .collect::<Vec<&str>>().join(" ")
RECURSIVE join_words(_)
join_words(words) ==
    IF words = <<>> THEN <<>>
    ELSE IF Len(words) = 1 THEN words[1]
    ELSE words[1] \o <<" ">> \o join_words(Tail(words))

\* the words of a command message after the command prefix, lines 181-183
\* and 316-318
command_words(msg) == split_whitespace(trim_start_matches(msg, CommandPrefix))

KeyBlock == <<"b","l","o","c","k">>
KeysAuth == {<<"a","u","t","h">>, <<"a","u","t","h","e","n","t","i","c","a","t","i","o","n">>, <<"p","a","s","s","w","o","r","d">>, <<"p","a","s","s">>}
ValueOn == <<"o","n">>
ValueOff == <<"o","f","f">>

\* set_command, lines 321-371: the match on the key; the config to write and
\* the response
set_command_match(room_config, key, value) ==
    IF key = KeyBlock
    THEN IF value = <<>>
         THEN [config |-> room_config, response |-> Text("block empty", <<>>)]
         ELSE IF to_lowercase(value) = ValueOn
              THEN [config |-> [room_config EXCEPT !.block = TRUE],
                    response |-> Text("blocking", <<>>)]
         ELSE IF to_lowercase(value) = ValueOff
              THEN [config |-> [room_config EXCEPT !.block = FALSE],
                    response |-> Text("unblocking", <<>>)]
         ELSE [config |-> room_config, response |-> Text("invalid block", <<>>)]
    ELSE IF key \in KeysAuth
    THEN IF value = <<>>
         THEN [config |-> room_config, response |-> Text("token empty", <<>>)]
         ELSE IF to_lowercase(value) = ValueOn
              THEN [config |-> room_config, response |-> Text("token on", <<>>)]
         ELSE IF to_lowercase(value) = ValueOff
              THEN [config |-> [room_config EXCEPT !.auth = None],
                    response |-> Text("token removed", <<>>)]
         ELSE [config |-> [room_config EXCEPT !.auth = Some(value)],
               response |-> Text("token set", value)]
    ELSE [config |-> room_config, response |-> Text("usage", room_config)]

---------------------------------------------------------------------------
(* The handlers of the chat side, one `.await` a step: the join callback   *)
(* of connect with send_help, and the commands info, block, unblock, set   *)
(* and poke.  A handler runs in a task w on the room `room`; reply collects    *)
(* the messages the handlers send into that room.  A room.send that fails  *)
(* under `.expect` panics the task.                                        *)

InfoMsg == CommandPrefix \o <<" ","i","n","f","o">>
BlockMsg == CommandPrefix \o <<" ","b","l","o","c","k">>
UnblockMsg == CommandPrefix \o <<" ","u","n","b","l","o","c","k">>
\* in place of a command message: the task runs the join callback
JoinCallback == <<"join_rooms_callback">>

IsInfo(msg) == nth_or_default(command_words(msg), 0) = <<"i","n","f","o">>
IsSet(msg) == nth_or_default(command_words(msg), 0) = <<"s","e","t">>
IsPoke(msg) == nth_or_default(command_words(msg), 0) = <<"p","o","k","e">>
IsBlock(msg) == nth_or_default(command_words(msg), 0) = <<"b","l","o","c","k">>
IsUnblock(msg) == nth_or_default(command_words(msg), 0) = <<"u","n","b","l","o","c","k">>

\* the task w runs no handler
Stopped(w) == w_pc[w] \in {"off", "returned", "errored", "panicked"}

\* the message msg arrives in room r and its handler starts in task w
Dispatch(w, r, msg) ==
    /\ Stopped(w)
    /\ direct < MaxDirect
    /\ direct' = direct + 1
    /\ room' = r
    /\ w_pc' = [w_pc EXCEPT ![w] = "cmd"]
    /\ w_cmd' = [w_cmd EXCEPT ![w] = msg]
    /\ w_resp' = [w_resp EXCEPT ![w] = <<>>]
    /\ w_seen' = [w_seen EXCEPT ![w] = None]
    /\ reply' = <<>>
    /\ UNCHANGED <<tags, histVars, authVars, httpVars, callVars, roomState,
                   members, deliveryVars>>

\* can_message_room(&room).await of task w: the tags the read hands over
\* are kept in w_seen; the task goes on at pc yes or at pc no
CanMessage(w, yes, no) ==
    /\ \E rd \in ReadOutcomes :
          /\ read_err' = (read_err \/ (room # ExampleRoom /\ ~rd))
          /\ w_seen' = [w_seen EXCEPT ![w] =
                           Some(IF room = ExampleRoom THEN tags[room]
                                ELSE TagsRead(tags[room], rd))]
          /\ w_pc' = [w_pc EXCEPT ![w] =
                         IF can_message_room(room, tags[room], rd) THEN yes ELSE no]
    /\ UNCHANGED <<tags, storeVars, authVars, pingVars, httpVars, w_cmd, w_resp,
                   callRest>>

\* room.send(text).await.expect(..) of task w, which goes on at pc next
SendExpect(w, text, next) ==
    /\ \E ok \in SendOutcomes :
          IF ok
          THEN /\ reply' = Append(reply, text)
               /\ w_pc' = [w_pc EXCEPT ![w] = next]
          ELSE /\ w_pc' = [w_pc EXCEPT ![w] = "panicked"]
               /\ UNCHANGED reply
    /\ UNCHANGED <<tags, storeVars, authVars, httpVars, handlerVars, callVars,
                   roomState, members, deliveryVars>>

\* The invite of room r is accepted and the join callback of connect starts,
\* src/utils.rs lines 402-403
JoinRoom(r) ==
    /\ roomState[r] = "Invited"
    /\ roomState' = [roomState EXCEPT ![r] = "Joined"]
    /\ Stopped(ChatTask)
    /\ direct < MaxDirect
    /\ direct' = direct + 1
    /\ room' = r
    /\ w_pc' = [w_pc EXCEPT ![ChatTask] = "cmd"]
    /\ w_cmd' = [w_cmd EXCEPT ![ChatTask] = JoinCallback]
    /\ w_resp' = [w_resp EXCEPT ![ChatTask] = <<>>]
    /\ w_seen' = [w_seen EXCEPT ![ChatTask] = None]
    /\ reply' = <<>>
    /\ UNCHANGED <<tags, histVars, authVars, httpVars, callVars, members,
                   deliveryVars>>

\* the join callback, line 404: can_message_room
JoinCheck(w) ==
    /\ w_pc[w] = "cmd"
    /\ w_cmd[w] = JoinCallback
    /\ CanMessage(w, "welcoming", "help")

\* the join callback, lines 405-409: the welcome message
JoinWelcome(w) ==
    /\ w_pc[w] = "welcoming"
    /\ SendExpect(w, Text("welcome", <<>>), "help")

\* the `info` command, src/daemon.rs lines 161-172: can_message_room, then
\* send_help
InfoCommand(w) ==
    /\ w_pc[w] = "cmd"
    /\ IsInfo(w_cmd[w])
    /\ CanMessage(w, "help", "returned")

\* send_help, line 144: its own can_message_room
HelpCheck(w) ==
    /\ w_pc[w] = "help"
    /\ CanMessage(w, IF IsSome(CanonicalAlias(room)) THEN "help alias" ELSE "help id",
                  "returned")

\* send_help, lines 145-152: the alias of the room
HelpAlias(w) ==
    /\ w_pc[w] = "help alias"
    /\ SendExpect(w, Text("alias", Unwrap(CanonicalAlias(room))), "help id")

\* send_help, lines 153-159: the id of the room, then the call of
\* get_room_config
HelpId(w) ==
    /\ w_pc[w] = "help id"
    /\ \E ok \in SendOutcomes :
          IF ok
          THEN /\ reply' = Append(reply, Text("id", room))
               /\ CallGet(w)
          ELSE /\ w_pc' = [w_pc EXCEPT ![w] = "panicked"]
               /\ UNCHANGED <<reply, callVars>>
    /\ UNCHANGED <<tags, storeVars, authVars, httpVars, handlerVars, roomState,
                   members, deliveryVars>>

\* send_help, lines 160-167: get_room_config has returned; the token, when
\* the config holds one
HelpToken(w) ==
    /\ w_pc[w] = "done"
    /\ (w_cmd[w] = JoinCallback \/ IsInfo(w_cmd[w]))
    /\ IF IsSome(w_config[w].auth)
       THEN SendExpect(w, Text("token", Unwrap(w_config[w].auth)), "returned")
       ELSE /\ w_pc' = [w_pc EXCEPT ![w] = "returned"]
            /\ UNCHANGED <<tags, storeVars, authVars, pingVars, httpVars,
                           handlerVars, callVars>>

\* a step of the join callback in task w, the steps of its get_room_config
\* included
JoinStep(w) ==
    \/ JoinCheck(w)
    \/ JoinWelcome(w)
    \/ HelpCheck(w)
    \/ HelpAlias(w)
    \/ HelpId(w)
    \/ HelpToken(w)

\* (mutant) the block command writes the tag in a blocked room as well
BlockCommand_always_replies(w) ==
    /\ w_pc[w] = "cmd"
    /\ IsBlock(w_cmd[w])
    /\ CanMessage(w, "blocking", "blocking")

\* the `block` command, src/daemon.rs line 223: can_message_room
BlockCommand(w) ==
    /\ w_pc[w] = "cmd"
    /\ IsBlock(w_cmd[w])
    /\ CanMessage(w, "blocking", "returned")

\* a set_tag / remove_tag whose error the handler turns into a reply: the
\* call, the reply on success and the reply on failure
TagCallIsOk(w, call, done, failed) ==
    /\ \E ok \in WriteOutcomes :
          /\ tags' = [tags EXCEPT ![room] = IF ok THEN ApplyCall(@, call) ELSE @]
          /\ w_resp' = [w_resp EXCEPT ![w] = IF ok THEN done ELSE failed]
    /\ w_pc' = [w_pc EXCEPT ![w] = "replying"]
    /\ UNCHANGED <<storeVars, authVars, pingVars, httpVars, w_cmd, w_seen, callVars>>

\* the `block` command, lines 225 and 229: the tag call
BlockWrite(w) ==
    /\ w_pc[w] = "blocking"
    /\ TagCallIsOk(w, SetTag(BlockTag), Text("blocked", <<>>), Text("block failed", <<>>))

\* the `unblock` command, lines 246 and 253: the tag call
UnblockCommand(w) ==
    /\ w_pc[w] = "cmd"
    /\ IsUnblock(w_cmd[w])
    /\ TagCallIsOk(w, RemoveTag(BlockTag), Text("unblocked", <<>>),
                   Text("unblock failed", <<>>))

\* the reply of block and unblock, lines 226-232 and 247-257
Reply(w) ==
    /\ w_pc[w] = "replying"
    /\ SendExpect(w, w_resp[w], "returned")

\* set_command, src/daemon.rs lines 314-320: the call of get_room_config
SetCommand(w) ==
    /\ w_pc[w] = "cmd"
    /\ IsSet(w_cmd[w])
    /\ CallGet(w)
    /\ UNCHANGED <<tags, storeVars, authVars, pingVars, httpVars, handlerVars>>

\* set_command, lines 321-372: get_room_config has returned; the match on
\* the key and the call of set_room_config
SetMatch(w) ==
    /\ w_pc[w] = "done"
    /\ IsSet(w_cmd[w])
    /\ w_in[w] # "set"
    /\ LET m == set_command_match(w_config[w],
                    nth_or_default(command_words(w_cmd[w]), 1),
                    nth_or_default(command_words(w_cmd[w]), 2))
       IN  /\ w_resp' = [w_resp EXCEPT ![w] = m.response]
           /\ CallSet(w, m.config)
    /\ UNCHANGED <<tags, storeVars, authVars, pingVars, httpVars, w_cmd, w_seen>>

\* set_command, lines 373-376: set_room_config has returned; the reply
SetReply(w) ==
    /\ w_pc[w] = "done"
    /\ IsSet(w_cmd[w])
    /\ w_in[w] = "set"
    /\ SendExpect(w, w_resp[w], "returned")

\* the poke command, lines 179-198: the arguments and the call of ping_room
PokeCommand(w) ==
    /\ w_pc[w] = "cmd"
    /\ IsPoke(w_cmd[w])
    /\ w_pc' = [w_pc EXCEPT ![w] = "pinging"]
    /\ p_pc' = "Resolving"
    /\ p_name' = nth_or_default(command_words(w_cmd[w]), 1)
    /\ p_headers' = NoHeaders
    /\ p_message' = join_words(SubSeq(command_words(w_cmd[w]), 3,
                                      Len(command_words(w_cmd[w]))))
    /\ p_mention' = FALSE
    /\ UNCHANGED <<tags, storeVars, authVars, httpVars, handlerVars, callVars,
                   roomState, members, reply, p_room, p_delay, p_slept, p_msg,
                   p_seen, p_allowed, p_result, sent>>

\* (mutant) the error is reported whatever the originating room allows
PokeReturn_always_reports(w) ==
    /\ w_pc[w] = "pinging"
    /\ p_pc = "Returned"
    /\ IF p_result = "Ok"
       THEN /\ w_pc' = [w_pc EXCEPT ![w] = "returned"]
            /\ UNCHANGED <<tags, storeVars, authVars, pingVars, httpVars,
                           handlerVars, callVars>>
       ELSE CanMessage(w, "reporting", "reporting")

\* the poke command, lines 199-202: ping_room has returned; on an error the
\* originating room is asked whether it may be messaged
PokeReturn(w) ==
    /\ w_pc[w] = "pinging"
    /\ p_pc = "Returned"
    /\ IF p_result = "Ok"
       THEN /\ w_pc' = [w_pc EXCEPT ![w] = "returned"]
            /\ UNCHANGED <<tags, storeVars, authVars, pingVars, httpVars,
                           handlerVars, callVars>>
       ELSE CanMessage(w, "reporting", "errored")

\* the poke command, lines 203-211: the error is sent into the originating
\* room and the handler returns Err(())
PokeReport(w) ==
    /\ w_pc[w] = "reporting"
    /\ SendExpect(w, Text("failed", p_result), "errored")

\* the poke command, line 192: ping_room is awaited in the handler's task,
\* so a panic inside it is the handler's
PokePanics(w) ==
    /\ w_pc[w] = "pinging"
    /\ w_pc[PingTask] = "panicked"
    /\ w_pc' = [w_pc EXCEPT ![w] = "panicked"]
    /\ UNCHANGED <<tags, storeVars, authVars, pingVars, httpVars, handlerVars, callVars>>

---------------------------------------------------------------------------
(* SpecPing: one delivery by ping_room, step by step, while a block or an  *)
(* unblock command is handled in a room.  Tag reads, tag writes and sends  *)
(* can fail.                                                               *)

PingTagSets ==
    {ts \in SUBSET {BlockTag, AuthPrefix \o <<"a">>, PassPrefix \o <<"a">>} :
        Cardinality(ts) <= MaxTags}
PingNames ==
    {ExampleRoom, RoomA,
     <<"!","b",":","x",".","y">>,       \* a room id the client does not know
     <<"#","a",":","x",".","y">>,       \* the alias of RoomA
     <<"e",":","x",".","y">>,           \* an alias of the example room, no '#'
     <<"@","a",":","x",".","y">>,       \* a user id
     <<>>}
PingHeaders ==
    {NoHeaders,
     Headers(Some(<<"a">>), None, None),
     Headers(None, Some(<<"a">>), Some(<<"P","l","a","i","n">>)),
     Headers(Some(<<"b">>), None, None)}
PingMessages == {<<"a", " ", "b">>, <<"b">>}

PingInit ==
    /\ StoreIdle
    /\ AuthIdle
    /\ HttpIdle
    /\ TaskIdle
    /\ \E target \in RoomIds, ts \in PingTagSets, st \in {"Joined", "Invited"},
          n \in {RoomSizeLimit, RoomSizeLimit + 1} :
          /\ tags = [r \in RoomIds |-> IF r = target THEN ts ELSE {}]
          /\ roomState = [r \in RoomIds |-> IF r = target THEN st ELSE "Joined"]
          /\ members = [r \in RoomIds |-> IF r = target THEN n ELSE 1]
    /\ reply = <<>>
    /\ p_pc = "Resolving"
    /\ p_name \in PingNames
    /\ p_headers \in PingHeaders
    /\ p_message \in PingMessages
    /\ p_mention = FALSE
    /\ p_room = None
    /\ p_delay = 0
    /\ p_slept = 0
    /\ p_msg = <<>>
    /\ p_seen = None
    /\ p_allowed = FALSE
    /\ p_result = "none"
    /\ sent = None

\* most invites and commands handled while the delivery runs
MaxHandlers == 1

\* The model follows the rooms until the delivery has returned.
Observing == p_pc # "Returned" /\ direct < MaxHandlers

\* a block or unblock command arrives in a joined room while the delivery
\* runs
PingCommand ==
    \E r \in RoomIds, msg \in {BlockMsg, UnblockMsg} :
        /\ Observing
        /\ roomState[r] = "Joined"
        /\ Dispatch(ChatTask, r, msg)

PingNext ==
    \/ PingStep
    \/ PingCommand
    \/ BlockCommand(ChatTask)
    \/ BlockWrite(ChatTask)
    \/ UnblockCommand(ChatTask)
    \/ Reply(ChatTask)

SpecPing == PingInit /\ [][PingNext]_vars

\* A delivery with nothing else happening: a room that is invited stays
\* invited.  The join-wait comes before the headers and the message are
\* looked at, so one request stands for all.  tokio wakes the task when its
\* sleep is over: a step of the join-wait loop that can be taken is taken.
JoinWaitInit ==
    /\ PingInit
    /\ p_headers = NoHeaders
    /\ p_message = <<"b">>

SpecJoinWait == JoinWaitInit /\ [][PingStep]_vars /\ WF_vars(JoinWait)


---------------------------------------------------------------------------
(* SpecInvite: one delivery by ping_room to a room the bot is invited to,  *)
(* addressed by its id, while the invite may be accepted and the join      *)
(* callback runs.                                                          *)

InviteInit ==
    /\ PingInit
    /\ \E r \in RoomIds : roomState[r] = "Invited" /\ members[r] = RoomSizeLimit
    /\ p_name \in RoomIds
    /\ p_headers \in {NoHeaders, Headers(Some(<<"a">>), None, None)}

\* the invite is accepted while the delivery runs
InviteAccepted == \E r \in RoomIds : Observing /\ JoinRoom(r)

InviteNext ==
    \/ PingStep
    \/ InviteAccepted
    \/ JoinStep(ChatTask)
    \/ GetRead(ChatTask)
    \/ WriterBlock(ChatTask)
    \/ WriterRead(ChatTask)
    \/ WriterCall(ChatTask)

SpecInvite == InviteInit /\ [][InviteNext]_vars

---------------------------------------------------------------------------
(* SpecResolve: the room resolution of ping_room on names of every shape,  *)
(* each room joined or still invited.                                      *)

NameSigils == {<<>>, <<"!">>, <<"#">>, <<"@">>, <<"#","@">>}
NameLocals == {<<"a">>, <<"e">>, <<"b">>, <<"a","\n">>, <<"J","Y","r","j","s","P","j","E","r","p","F","S","D","d","p","w","p","I">>}
NameServers == {<<>>, <<":","x",".","y">>, <<":","j","a","c","k","s","o","n",".","d","e","v">>, <<":","x">>, <<".","x",":","y">>, <<":","x",".","y",":","z">>, <<":">>}
ResolveNames ==
    {<<>>} \cup {s \o l \o d : s \in NameSigils, l \in NameLocals, d \in NameServers}

ResolveInit ==
    /\ StoreIdle
    /\ AuthIdle
    /\ HttpIdle
    /\ TaskIdle
    /\ tags = [r \in RoomIds |-> {}]
    /\ roomState \in [RoomIds -> {"Joined", "Invited"}]
    /\ members = [r \in RoomIds |-> 1]
    /\ reply = <<>>
    /\ p_pc = "Resolving"
    /\ p_name \in ResolveNames
    /\ p_headers = NoHeaders
    /\ p_message = <<"b">>
    /\ p_mention = FALSE
    /\ p_room = None
    /\ p_delay = 0
    /\ p_slept = 0
    /\ p_msg = <<>>
    /\ p_seen = None
    /\ p_allowed = FALSE
    /\ p_result = "none"
    /\ sent = None

SpecResolve == ResolveInit /\ [][Resolve]_vars

\* the name has the sigil c, then a ':' and, somewhere after it, a '.'
Shaped(name, c) ==
    /\ Len(name) >= 3
    /\ name[1] = c
    /\ \E i \in 2..(Len(name) - 1) :
          name[i] = ":" /\ \E j \in (i + 1)..Len(name) : name[j] = "."
\* the name is a native room id: '!', a local part, ':' and a server name
NativeId(name) ==
    /\ name # <<>>
    /\ name[1] = "!"
    /\ \E i \in 2..(Len(name) - 1) :
          /\ name[i] = ":"
          /\ \A k \in 2..Len(name) : (name[k] = ":") => k = i
          /\ \A k \in (i + 1)..Len(name) : name[k] \notin {"!", "#", "@", " ", "\t"}
\* the name with '#' prepended if missing
WithHash(name) == IF name[1] = "#" THEN name ELSE <<"#">> \o name
\* the joined rooms one of whose aliases is the name
JoinedWithAlias(name) ==
    {r \in RoomIds :
        /\ roomState[r] = "Joined"
        /\ CanonicalAlias(r) = Some(name) \/ name \in AltAliases(r)}

\* C25: precedence of get_room_from_name.  The empty name gives None; a
\* native room id is looked up directly (None if unknown, no alias scan);
\* else a name shaped like a user id gives None; else '#' is prepended if
\* missing and a name without ':' and a domain-like suffix gives None; else
\* the joined room with that canonical or alternate alias, or None.
C25_ResolutionPrecedence ==
    p_pc # "Resolving" =>
        /\ p_room = None <=> (p_pc = "Returned" /\ p_result = ErrRoomNotFound)
        /\ CASE p_name = <<>> -> p_room = None
             [] p_name # <<>> /\ NativeId(p_name) ->
                   p_room = IF p_name \in RoomIds THEN Some(p_name) ELSE None
             [] p_name # <<>> /\ ~NativeId(p_name) /\ Shaped(p_name, "@") ->
                   p_room = None
             [] OTHER ->
                   IF ~Shaped(WithHash(p_name), "#") THEN p_room = None
                   ELSE IF JoinedWithAlias(WithHash(p_name)) = {} THEN p_room = None
                   ELSE IsSome(p_room) /\ Unwrap(p_room) \in JoinedWithAlias(WithHash(p_name))

\* C25 witness: the alias of the example room given without '#' resolved to
\* the example room by the alias scan.
C25_Witness ==
    /\ p_pc = "AwaitingJoin"
    /\ p_name = <<"e",":","x",".","y">>
    /\ p_room = Some(ExampleRoom)

---------------------------------------------------------------------------
(* Claims on the delivery pipeline                                         *)

\* the tag calls of the delivery include the removal of a legacy pass tag
RemovedPassTag ==
    \E i \in 1..Len(p_calls) :
        /\ p_calls[i].call = "remove_tag"
        /\ BeginsWith(p_calls[i].tag, PassPrefix)

\* C7 as claimed: when the auth gate rejects, the delivery ends Failed with no
\* room send and no tag write performed for that delivery.
C7_RejectWritesNothing ==
    p_result = ErrAuthRejected =>
        /\ p_pc = "Returned"
        /\ sent = None
        /\ p_calls = <<>>

\* C7 amended: when the auth gate rejects, the delivery ends Failed with no
\* room send; the only tag writes of the delivery are those of the legacy
\* migration that ran before the gate: it has made tag writes only if the
\* room held a dev.pokem.pass.* tag as its get_room_config began, and always
\* then when nothing else was handled in the meantime.
C7_RejectSendsNothing ==
    p_result = ErrAuthRejected =>
        /\ p_pc = "Returned"
        /\ sent = None
        /\ w_pc[PingTask] = "done"
        /\ p_calls # <<>> =>
              /\ PassTagsOf(w_before[PingTask]) # {}
              /\ Head(p_calls) = BlockCall(w_config[PingTask])
        /\ (PassTagsOf(w_before[PingTask]) # {} /\ direct = 0) => p_calls # <<>>

\* C7 witness: a delivery rejected by the gate after get_room_config migrated
\* a legacy pass tag.
C7_Witness ==
    /\ p_pc = "Returned"
    /\ p_result = ErrAuthRejected
    /\ sent = None
    /\ RemovedPassTag

\* C8: for a room that stays Invited, ping_room fails with the join-timeout
\* error after a total sleep of at least 60s and less than 126s, and the
\* join-wait always comes to an end.
C8_JoinWaitTerminates ==
    /\ [](p_result = ErrJoinTimeout => (p_slept >= 60 /\ p_slept < 126))
    /\ [](p_pc = "AwaitingJoin" => p_slept < 126)
    /\ (p_pc = "AwaitingJoin" /\ roomState[Unwrap(p_room)] = "Invited")
          ~> (p_pc = "Returned" /\ p_result = ErrJoinTimeout)

\* C8 witness: the delivery to a room still invited has returned the
\* join-timeout error after sleeping 2+4+8+16+32 seconds.
C8_Witness ==
    /\ p_pc = "Returned"
    /\ p_result = ErrJoinTimeout
    /\ roomState[Unwrap(p_room)] = "Invited"
    /\ p_slept = 62
    /\ sent = None

\* C9 as claimed: ping_room submits the message only if the room is the
\* example room or carries no dev.pokem.block tag when the policy is
\* checked.
C9_BlockedRefused ==
    [][p_pc = "Sending" /\ p_pc' = "Submitting" =>
          \/ p_room = Some(ExampleRoom)
          \/ BlockTag \notin tags[Unwrap(p_room)]]_vars

\* C9 amended: ping_room submits the message only if the room is the example
\* room or the read of the policy check handed over no dev.pokem.block tag,
\* which is so when the room carries none and when the read failed; the
\* example room passes even with the block tag; a refused send is silent:
\* nothing is sent and ping_room returns Ok.
C9_SendAllowedPolicy ==
    /\ IsSome(sent) =>
          \/ Unwrap(sent).room = ExampleRoom
          \/ BlockTag \notin Unwrap(p_seen)
    /\ (IsSome(p_seen) /\ p_room = Some(ExampleRoom)) => p_allowed
    /\ (IsSome(p_seen) /\ ~p_allowed) =>
          /\ sent = None
          /\ p_pc = "Returned"
          /\ p_result = "Ok"

\* C9 witness: a delivery to a blocked ordinary room was refused silently.
C9_Witness ==
    /\ p_pc = "Returned"
    /\ p_room = Some(RoomA)
    /\ IsSome(p_seen)
    /\ BlockTag \in Unwrap(p_seen)
    /\ sent = None
    /\ p_result = "Ok"

\* C10: a delivery to a room whose active membership exceeds the configured
\* room_size_limit is refused: no message is sent.  (can_message_room reads
\* no member count, and connect only hands room_size_limit to the bot.)
C10_SizeCeilingRefuses ==
    IsSome(sent) => members[Unwrap(sent).room] <= Unwrap(room_size_limit)

---------------------------------------------------------------------------
(* Claims on the stages of a delivery                                      *)

\* the moves of a delivery from one stage to the next, and the result it
\* returns with when it ends at that stage
StageMoves ==
    {<<"Resolving", "AwaitingJoin", "none">>,
     <<"Resolving", "Returned", ErrRoomNotFound>>,
     <<"AwaitingJoin", "Authorizing", "none">>,
     <<"AwaitingJoin", "Returned", ErrJoinTimeout>>,
     <<"Authorizing", "Sending", "none">>,
     <<"Authorizing", "Returned", ErrAuthRejected>>,
     <<"Sending", "Submitting", "none">>,
     <<"Sending", "Returned", "Ok">>,
     <<"Submitting", "Returned", "Ok">>,
     <<"Submitting", "Returned", ErrSend>>}

PastJoinWait ==
    \/ p_pc \in {"Authorizing", "Sending", "Submitting"}
    \/ p_result \in {ErrAuthRejected, "Ok", ErrSend}

\* the auth gate accepted the request against the config get_room_config
\* returned to the delivery
GateAccepted ==
    /\ w_pc[PingTask] = "done"
    /\ validate_authentication(w_config[PingTask], p_headers, p_message) # Rejected

\* C31: a delivery goes through Resolving, AwaitingJoin, Authorizing,
\* Formatting and Sending in this order and ends Delivered (Ok) or Failed
\* (one error), never both: a resolution failure comes before any sleep,
\* the auth gate runs only once the room is no longer Invited, a room still
\* Invited at the end means the join-timeout failure, and a message is
\* submitted only when the auth gate accepted and on an Ok return.
C31_StageOrder ==
    /\ [][p_pc' # p_pc => <<p_pc, p_pc', p_result'>> \in StageMoves]_vars
    /\ [](p_result = ErrRoomNotFound => p_slept = 0 /\ p_room = None)
    /\ [](PastJoinWait => roomState[Unwrap(p_room)] # "Invited")
    /\ [](p_pc = "Returned" /\ IsSome(p_room)
            /\ roomState[Unwrap(p_room)] = "Invited"
          => p_result = ErrJoinTimeout /\ p_calls = <<>>)
    /\ [](IsSome(sent) => p_result = "Ok" /\ GateAccepted)
    /\ [](p_pc = "Returned" <=> p_result # "none")

\* C31 witness: the room stayed Invited, the request carried the room's
\* token in the header, and the delivery ended in the join timeout after
\* 62 seconds of sleep without reading the room's config
C31_Witness ==
    /\ p_pc = "Returned"
    /\ IsSome(p_room)
    /\ roomState[Unwrap(p_room)] = "Invited"
    /\ AuthPrefix \o <<"a">> \in tags[Unwrap(p_room)]
    /\ p_headers = Headers(Some(<<"a">>), None, None)
    /\ p_result = ErrJoinTimeout
    /\ p_slept = 62

---------------------------------------------------------------------------
(* Claims on the join-wait                                                 *)

\* the sleeps of the join-wait, in seconds
Sleeps == <<2, 4, 8, 16, 32>>

RECURSIVE SleptAfter(_)
SleptAfter(k) == IF k = 0 THEN 0 ELSE SleptAfter(k - 1) + Sleeps[k]

\* the delivery has slept the first k sleeps and no other
SleptExactly(k) == p_slept = SleptAfter(k)

\* C32: the join-wait does not sleep when the resolved room is not Invited;
\* while the room is Invited it sleeps 2, 4, 8, 16, 32 seconds in this
\* order, looks at the state again after each sleep and goes to the auth
\* gate as soon as the room is no longer Invited, also after the fifth
\* sleep; it fails only with the room still Invited after the fifth sleep
\* and there is no sixth sleep.
C32_JoinWaitSteps ==
    /\ [](\E k \in 0..Len(Sleeps) : SleptExactly(k))
    /\ [][p_slept' # p_slept =>
            /\ p_pc = "AwaitingJoin" /\ p_pc' = "AwaitingJoin"
            /\ roomState[Unwrap(p_room)] = "Invited"
            /\ \E k \in 1..Len(Sleeps) :
                  /\ SleptExactly(k - 1)
                  /\ p_slept' - p_slept = Sleeps[k]]_vars
    /\ [][p_pc = "AwaitingJoin" /\ roomState[Unwrap(p_room)] # "Invited"
            /\ p_pc' # p_pc
          => p_pc' = "Authorizing" /\ p_slept' = p_slept]_vars
    /\ [][p_pc = "AwaitingJoin" /\ p_pc' = "Returned" =>
            /\ roomState[Unwrap(p_room)] = "Invited"
            /\ SleptExactly(Len(Sleeps))
            /\ p_result' = ErrJoinTimeout]_vars
    /\ [](p_result = ErrJoinTimeout => SleptExactly(Len(Sleeps)))

\* C32 witness: the room was joined during the fifth sleep and the delivery
\* went on to the auth gate after 62 seconds
C32_Witness ==
    /\ p_pc = "Authorizing"
    /\ SleptExactly(5)
    /\ roomState[Unwrap(p_room)] = "Joined"
    /\ p_result = "none"

---------------------------------------------------------------------------
(* Claims on failing reads of the configuration                            *)

\* the read of the delivery's get_room_config failed
GetReadFailed == w_in[PingTask] = "get, read failed" /\ w_pc[PingTask] = "done"
\* the policy check was handed no tags
PolicySawNothing == p_seen = Some({})

\* C33: a failed read of the tags makes get_room_config return block=false
\* and auth=None (and write nothing) and makes can_message_room return
\* true: the policy check either sees the tags the room holds or, its read
\* failing, sees none and allows the send; with both reads failing the
\* delivery passes the auth gate with the message as it came and is
\* submitted to the room, whatever token or block tag the room holds.
C33_ReadsFailOpen ==
    /\ [](GetReadFailed => w_config[PingTask] = DefaultConfig /\ p_calls = <<>>)
    /\ [][p_pc = "Sending" /\ p_pc' # p_pc =>
            \/ p_seen' = Some(tags[Unwrap(p_room)])
            \/ PolicySawNothing' /\ p_allowed']_vars
    /\ [](GetReadFailed /\ PolicySawNothing /\ p_pc = "Returned" =>
            /\ p_result \in {"Ok", ErrSend}
            /\ p_result = "Ok" =>
                  /\ IsSome(sent)
                  /\ Unwrap(sent).room = Unwrap(p_room)
                  /\ Unwrap(sent).content.body = p_message)

\* C33 witness: room !a:x.y holds the block tag and the token a and no
\* command touched it, the request carries no token, both reads failed and
\* the message was sent
C33_Witness ==
    /\ p_pc = "Returned"
    /\ GetReadFailed
    /\ PolicySawNothing
    /\ direct = 0
    /\ p_room = Some(RoomA)
    /\ tags[RoomA] = {BlockTag, AuthPrefix \o <<"a">>}
    /\ p_headers = NoHeaders
    /\ p_message = <<"b">>
    /\ p_result = "Ok"
    /\ IsSome(sent)

---------------------------------------------------------------------------
(* Claims on blocking while deliveries run                                 *)

\* C36: while dev.pokem.block is stored in a room other than the example
\* room no delivery submits a message to that room, deliveries that were
\* under way when the tag was stored included.
C36_BlockStopsPokes ==
    [][IsSome(sent') /\ sent' # sent /\ Unwrap(sent').room # ExampleRoom
       => BlockTag \notin tags[Unwrap(sent').room]]_vars

\* the block command stored the tag after can_message_room had allowed
\* the send and before r.send ran
C36_Window ==
    /\ p_pc = "Submitting"
    /\ p_room = Some(RoomA)
    /\ p_allowed
    /\ BlockTag \notin Unwrap(p_seen)
    /\ BlockTag \in tags[RoomA]
    /\ reply = <<Text("blocked", <<>>)>>

---------------------------------------------------------------------------
(* Claims on the state of the resolved room                                *)

\* the delivery has slept in the join-wait
EnteredJoinWait == p_slept > 0

\* C40: resolution by alias returns only rooms in the Joined state; a room
\* in the Invited state is returned only by the lookup of a raw room id,
\* so that the join-wait is entered only for names that parse as a room id.
C40_InvitedOnlyById ==
    /\ [][p_room' # p_room /\ ~NativeId(p_name) =>
            roomState[Unwrap(p_room')] = "Joined"]_vars
    /\ [](IsSome(p_room) /\ roomState[Unwrap(p_room)] = "Invited"
            => NativeId(p_name) /\ p_room = Some(p_name))
    /\ [](EnteredJoinWait => NativeId(p_name))

\* C40 witness: the delivery to the id of the invited room !a:x.y sleeps
\* in the join-wait
C40_Witness ==
    /\ p_pc = "AwaitingJoin"
    /\ p_name = RoomA
    /\ p_room = Some(RoomA)
    /\ roomState[RoomA] = "Invited"
    /\ EnteredJoinWait

\* the alias of the invited room !a:x.y is not resolved
C40_AliasOfInvited ==
    /\ p_name = <<"#","a",":","x",".","y">>
    /\ roomState[RoomA] = "Invited"
    /\ p_pc = "Returned"
    /\ p_result = ErrRoomNotFound
    /\ p_slept = 0


---------------------------------------------------------------------------
(* SpecHttp: one HTTP request served by daemon_poke, from every request of *)
(* the sets below, with the delivery of ping_room step by step.            *)

Request(method, path, query, headers, body) ==
    [method |-> method, path |-> path, query |-> query, headers |-> headers,
     body |-> body]

PathOps == <<"/","o","p","s">>
PathRoomA == <<"/","%","2","1","a",":","x",".","y">>
PathUndecodable == <<"/","%","F","F">>
PathEAcute == <<"/","%","C","3","%","A","9">>
HttpPaths == {PathOps, PathRoomA, PathUndecodable, PathEAcute}

QueryUrgent == <<"m","e","s","s","a","g","e","=","d","i","s","k","+","f","u","l","l","&","p","r","i","o","r","i","t","y","=","u","r","g","e","n","t">>
\* a query of percent-encoded names and values: an upper-case letter in a
\* name, UTF-8 of two bytes, a digit, a comma, an ampersand, a UTF-8
\* sequence cut short, and a name that is an upper-case letter outside ASCII
QueryEncoded == <<"%","5","4","i","t","l","e","=","%","C","3","%","A","9","&","p","r","i","o","r","i","t","y","=","%","3","5","&","t","a","g","s","=","n","o","p","e","%","2","C","s","k","u","l","l","&","m","e","s","s","a","g","e","=","a","%","2","6","b","%","E","2","%","8","2","&","%","C","3","%","8","9","=","x">>
HttpQueries ==
    {None,
     Some(QueryUrgent),
     Some(QueryEncoded),
     Some(<<"P","r","i","o","r","i","t","y","=","0","&","t","a","g","s","=","n","o","p","e">>)}

\* the values of a priority header: the six names in some letter case,
\* numbers in and out of 1..5 and of u8, other text, bytes that are not ASCII
PriorityValues ==
    {<<"m","i","n">>, <<"L","O","W">>, <<"D","e","f","a","u","l","t">>, <<"h","i","g","h">>, <<"U","R","G","E","N","T">>, <<"M","a","x">>, <<"s","o","o","n">>,
     <<"6">>, <<HighByte>>, <<EmojiWarning>>}

HttpHeaders ==
    {HeaderMap(<<>>),
     HeaderMap([authentication |-> <<"a">>, prio |-> <<"u","r","g","e","n","t">>]),
     HeaderMap([topic |-> <<"!","a",":","x",".","y">>, tags |-> <<"s","k","u","l","l",",","n","o","p","e",",","w","a","r","n","i","n","g">>, title |-> <<"T">>]),
     HeaderMap([message |-> <<"a"," ","b">>, format |-> <<"p","l","a","i","n">>, p |-> <<"5">>]),
     HeaderMap([title |-> <<EmojiWarning>>, m |-> <<EAcute>>, ta |-> <<EmojiSkull>>])}

JsonMessageOnly == JObject(<<JMember("message", JString(<<"b">>))>>)
JsonTopicRoomA ==
    JObject(<<JMember("topic", JString(<<"!","a",":","x",".","y">>)),
              JMember("message", JString(<<"b">>))>>)
JsonFull ==
    JObject(<<JMember("topic", JString(<<"o","p","s">>)),
              JMember("message", JString(<<"b">>)),
              JMember("priority", JNumber(5)),
              JMember("title", JString(<<"T">>)),
              JMember("tags", JArray(<<JString(<<"w","a","r","n","i","n","g">>)>>))>>)
JsonPriority200 ==
    JObject(<<JMember("topic", JString(<<"o","p","s">>)),
              JMember("message", JString(<<"a"," ","b">>)),
              JMember("priority", JNumber(200))>>)
JsonPriority300 ==
    JObject(<<JMember("topic", JString(<<"o","p","s">>)),
              JMember("message", JString(<<"b">>)),
              JMember("priority", JNumber(300))>>)
\* an array of the five fields in the order of their declaration
JsonArrayRoomA ==
    JArray(<<JString(<<"!","a",":","x",".","y">>), JNull, JString(<<"b">>), JNull, JNull>>)
\* an array that is one element short
JsonArrayShort == JArray(<<JString(<<"o","p","s">>), JNull, JString(<<"b">>), JNull>>)
\* an object that names `topic` twice
JsonTopicTwice ==
    JObject(<<JMember("topic", JString(<<"a">>)),
              JMember("topic", JString(<<"!","a",":","x",".","y">>)),
              JMember("message", JString(<<"c">>))>>)

HttpBodies ==
    {Body(<<HighByte>>, None),
     Body(<<>>, None),
     Body(<<"a"," ","b">>, None),
     Body(<<"{","\"","m","e","s","s","a","g","e","\"",":","\"","b","\"","}">>, Some(JsonMessageOnly)),
     Body(<<"{","\"","t","o","p","i","c","\"",":","\"","!","a",":","x",".","y","\"",",","\"","m","e","s","s","a","g","e","\"",":","\"","b","\"","}">>, Some(JsonTopicRoomA)),
     Body(<<"{","\"","t","o","p","i","c","\"",":","\"","o","p","s","\"",",","\"","m","e","s","s","a","g","e","\"",":","\"","b","\"",",","\"","p","r","i","o","r","i","t","y","\"",":","5",",","\"","t","i","t","l","e","\"",":","\"","T","\"",",","\"","t","a","g","s","\"",":","[","\"","w","a","r","n","i","n","g","\"","]","}">>,
          Some(JsonFull)),
     Body(<<"{","\"","t","o","p","i","c","\"",":","\"","o","p","s","\"",",","\"","m","e","s","s","a","g","e","\"",":","\"","a"," ","b","\"",",","\"","p","r","i","o","r","i","t","y","\"",":","2","0","0","}">>, Some(JsonPriority200)),
     Body(<<"{","\"","t","o","p","i","c","\"",":","\"","o","p","s","\"",",","\"","m","e","s","s","a","g","e","\"",":","\"","b","\"",",","\"","p","r","i","o","r","i","t","y","\"",":","3","0","0","}">>, Some(JsonPriority300)),
     Body(<<"[","\"","!","a",":","x",".","y","\"",",","n","u","l","l",",","\"","b","\"",",","n","u","l","l",",","n","u","l","l","]">>, Some(JsonArrayRoomA)),
     Body(<<"[","\"","o","p","s","\"",",","n","u","l","l",",","\"","b","\"",",","n","u","l","l","]">>, Some(JsonArrayShort)),
     Body(<<"{","\"","t","o","p","i","c","\"",":","\"","a","\"",",","\"","t","o","p","i","c","\"",":","\"","!","a",":","x",".","y","\"",",","\"","m","e","s","s","a","g","e","\"",":","\"","c","\"","}">>, Some(JsonTopicTwice))}

\* the requests: every POST of the paths, queries, headers and bodies
\* above; POSTs of /ops with each value of the priority header; GETs
HttpRequests ==
    {Request("POST", p, qs, h, b) :
        p \in HttpPaths, qs \in HttpQueries, h \in HttpHeaders, b \in HttpBodies}
    \cup
    {Request("POST", PathOps, qs, HeaderMap([priority |-> v]), b) :
        qs \in HttpQueries, v \in PriorityValues,
        b \in {Body(<<>>, None), Body(<<"a"," ","b">>, None)}}
    \cup
    {Request("GET", p, qs, h, b) :
        p \in {PathOps, PathRoomA}, qs \in {None, Some(QueryUrgent)},
        h \in {HeaderMap(<<>>), HeaderMap([priority |-> <<"h","i","g","h">>])},
        b \in HttpBodies}

\* the nickname tables (`rooms` of the configuration)
NickOps == <<"o","p","s">>
NickOpsUrgent == <<"o","p","s","-","u","r","g","e","n","t">>
HttpTables ==
    {None,
     Some((NickOps :> RoomA) @@ (<<EAcute>> :> ExampleRoom)),
     Some((NickOps :> RoomA) @@ (NickOpsUrgent :> ExampleRoom))}

HttpTagSets ==
    {{}, {BlockTag}, {AuthPrefix \o <<"a">>}, {PassPrefix \o <<"a">>}}

\* request.collect().await gives the body (TRUE) or fails (FALSE)
CollectOutcomes == BOOLEAN

HttpInit ==
    /\ StoreIdle
    /\ AuthIdle
    /\ TaskIdle
    /\ \E ts \in HttpTagSets, st \in {"Joined", "Invited"} :
          /\ st = "Invited" => ts = {}
          /\ tags = [r \in RoomIds |-> IF r = RoomA THEN ts ELSE {}]
          /\ roomState = [r \in RoomIds |-> IF r = RoomA THEN st ELSE "Joined"]
    /\ members = [r \in RoomIds |-> 1]
    /\ reply = <<>>
    /\ p_pc = "off"
    /\ p_name = <<>>
    /\ p_headers = NoHeaders
    /\ p_message = <<>>
    /\ p_mention = FALSE
    /\ p_room = None
    /\ p_delay = 0
    /\ p_slept = 0
    /\ p_msg = <<>>
    /\ p_seen = None
    /\ p_allowed = FALSE
    /\ p_result = "none"
    /\ sent = None
    /\ h_pc = "Accepted"
    /\ h_req \in HttpRequests
    /\ h_rooms \in HttpTables
    /\ h_poke = None
    /\ h_resp = None

\* daemon_poke, lines 380-386, and from_request up to line 48: the headers
\* are cloned and the task waits for the body
HttpAccept ==
    /\ h_pc = "Accepted"
    /\ h_pc' = "Collecting"
    /\ UNCHANGED <<tags, storeVars, authVars, pingVars, taskVars, h_req,
                   h_rooms, h_poke, h_resp>>

\* from_request from line 48 on, and daemon_poke up to line 421: the read of
\* the body ends; when it failed or the body is not UTF-8 the `?` returns
\* the Err and no response is built; else the request is normalized and the
\* task waits for the lock of the nickname table
HttpCollect ==
    /\ h_pc = "Collecting"
    /\ \E collected \in CollectOutcomes :
          LET parsed == from_request(h_req, collected)
          IN  IF parsed = None
              THEN /\ h_pc' = IF collected THEN ErrUtf8 ELSE ErrCollect
                   /\ UNCHANGED h_poke
              ELSE /\ h_pc' = "Routing"
                   /\ h_poke' = parsed
    /\ UNCHANGED <<tags, storeVars, authVars, pingVars, taskVars, h_req,
                   h_rooms, h_resp>>

\* daemon_poke, lines 421-556: the nickname table is read; a GET is answered
\* with the page, any other method goes on to ping_room
HttpRoute ==
    /\ h_pc = "Routing"
    /\ LET poke == Unwrap(h_poke)
           to == route(h_rooms, decoded_topic(poke), is_urgent(poke))
       IN  IF h_req.method = "GET"
           THEN /\ h_resp' = Some(Response(StatusOK, Page))
                /\ h_pc' = "Responded"
                /\ UNCHANGED pingVars
           ELSE /\ h_pc' = "Pinging"
                /\ p_pc' = "Resolving"
                /\ p_name' = to.room_id
                /\ p_headers' = h_req.headers
                /\ p_message' = decorated_message(poke)
                /\ p_mention' = to.mention_room
                /\ UNCHANGED <<h_resp, roomState, members, reply, p_room,
                               p_delay, p_slept, p_msg, p_seen,
                               p_allowed, p_result, sent>>
    /\ UNCHANGED <<tags, storeVars, authVars, taskVars, h_req, h_rooms, h_poke>>

\* daemon_poke, lines 545-567: ping_room has returned
HttpRespond ==
    /\ h_pc = "Pinging"
    /\ p_pc = "Returned"
    /\ h_resp' = Some(respond(p_result))
    /\ h_pc' = "Responded"
    /\ UNCHANGED <<tags, storeVars, authVars, pingVars, taskVars, h_req,
                   h_rooms, h_poke>>

\* daemon_poke awaits ping_room in the task of the request: a panic inside
\* ping_room ends that task and the request gets no response
HttpPanics ==
    /\ h_pc = "Pinging"
    /\ w_pc[PingTask] = "panicked"
    /\ h_pc' = "Panicked"
    /\ UNCHANGED <<tags, storeVars, authVars, pingVars, taskVars, h_req,
                   h_rooms, h_poke, h_resp>>

HttpNext ==
    HttpAccept \/ HttpCollect \/ HttpRoute \/ PingStep \/ HttpRespond \/ HttpPanics

SpecHttp == HttpInit /\ [][HttpNext]_vars

---------------------------------------------------------------------------
(* Claims on the HTTP handler                                              *)

\* the request was read and is not a GET: ping_room was called
Poked == h_pc \in {"Pinging", "Responded"} /\ h_req.method # "GET"
\* the bytes of the body are UTF-8, and then its text
BodyUtf8 == IsSome(from_utf8(StrBytes(h_req.body.bytes)))
BodyText == Unwrap(from_utf8(StrBytes(h_req.body.bytes)))
\* the handler returned an error: no response goes out
Errored == h_pc \in {ErrCollect, ErrUtf8}
\* the response of the handler
Answered(status, body) == h_resp = Some([status |-> status, body |-> body])

\* C11 as claimed: every non-GET request is answered 200 'OK' exactly when
\* the message was submitted to the room and 404 'Failed to send message' in
\* every other case, the malformed body included.
C11_OkIffSubmitted ==
    h_req.method # "GET" =>
        /\ ~Errored
        /\ h_pc = "Responded" =>
              /\ Answered(200, "OK") <=> IsSome(sent)
              /\ Answered(404, "Failed to send message") <=> sent = None

\* C11 amended: a non-GET request whose body is read and is UTF-8 makes one
\* call of ping_room and is answered 200 'OK' exactly when ping_room
\* returned Ok, which is when the message was submitted or the send was
\* refused by the send-allowed policy, and 404 'Failed to send message' when
\* ping_room returned an error (room not found, join timeout, auth rejected,
\* send error).  A body that cannot be read or that is not UTF-8 gets no
\* response and no call of ping_room: the handler returns an error.  A tag
\* write of the legacy migration inside ping_room that fails panics the
\* task of the request: nothing is sent to the room and the request gets no
\* response.
C11_OkIffPingOk ==
    h_req.method # "GET" =>
        /\ ~BodyUtf8 => h_pc \in {"Accepted", "Collecting", ErrCollect, ErrUtf8}
        /\ h_pc = ErrUtf8 => ~BodyUtf8
        /\ h_pc \in {"Accepted", "Collecting", ErrCollect, ErrUtf8} =>
              h_resp = None /\ p_pc = "off" /\ sent = None
        /\ h_pc = "Panicked" =>
              /\ op = "get panicked"
              /\ PassTagsOf(before) # {}
              /\ h_resp = None /\ sent = None
        /\ h_pc = "Responded" =>
              /\ p_pc = "Returned"
              /\ Answered(200, "OK") \/ Answered(404, "Failed to send message")
              /\ Answered(200, "OK") <=>
                    (IsSome(sent) \/ (IsSome(p_seen) /\ ~p_allowed))
              /\ Answered(404, "Failed to send message") <=>
                    p_result \in {ErrRoomNotFound, ErrJoinTimeout,
                                  ErrAuthRejected, ErrSend}

\* C11 witness: a poke of a blocked room, answered 200 'OK' with nothing sent.
C11_Witness ==
    /\ h_pc = "Responded"
    /\ h_req.method = "POST"
    /\ Answered(200, "OK")
    /\ sent = None
    /\ IsSome(p_seen) /\ BlockTag \in Unwrap(p_seen)

\* C12: a GET request is always answered 200 with the page, and never
\* resolves a room, sends a message or touches the room tags, whatever
\* query, headers or body it carries.
C12_GetAlwaysPage ==
    h_req.method = "GET" =>
        /\ h_pc \notin {"Accepted", "Collecting", "Routing"} => Answered(200, "page")
        /\ p_pc = "off" /\ p_room = None
        /\ sent = None
        /\ p_calls = <<>> /\ p_seen = None

\* the nickname table has the key
HasNick(key) == IsSome(h_rooms) /\ key \in DOMAIN Unwrap(h_rooms)
\* the room the plain topic t stands for
PlainTarget(t) == IF HasNick(t) THEN Unwrap(h_rooms)[t] ELSE t
\* the PokeRequest is urgent: its priority is above 3 (high, urgent or max)
Urgent == IsSome(Unwrap(h_poke).priority) /\ Unwrap(h_poke).priority[1] >= 4
\* the topic of the PokeRequest, percent-decoded when it decodes
Topic ==
    LET t == Unwrap(h_poke).topic
    IN  IF IsSome(from_utf8(PercentBytes(t))) THEN Unwrap(from_utf8(PercentBytes(t)))
        ELSE t

\* C13: urgent routing through the nickname table for a poke with topic t:
\* urgent with "t-urgent" in the table goes to table["t-urgent"] without the
\* room mention; urgent without it goes to table[t] when present, else t,
\* with the room mention; not urgent goes to table[t] when present, else t,
\* without the room mention.
C13_UrgentRouting ==
    Poked =>
        LET t  == Topic
            tu == t \o <<"-","u","r","g","e","n","t">>
        IN  /\ (Urgent /\ HasNick(tu)) =>
                  (p_name = Unwrap(h_rooms)[tu] /\ ~p_mention)
            /\ (Urgent /\ ~HasNick(tu)) =>
                  (p_name = PlainTarget(t) /\ p_mention)
            /\ ~Urgent => (p_name = PlainTarget(t) /\ ~p_mention)

\* C13 witness: an urgent poke of `ops` with no `ops-urgent` in the table
\* went to table["ops"] with the room mention, and was sent.
C13_Witness ==
    /\ Poked /\ Urgent
    /\ Topic = NickOps /\ HasNick(NickOps) /\ ~HasNick(NickOpsUrgent)
    /\ p_name = RoomA /\ p_mention
    /\ IsSome(sent) /\ Unwrap(sent).content.mention_room

\* C14: POST /ops?message=disk+full&priority=urgent with no body and no
\* headers is normalized to topic 'ops', message 'disk full', priority 5 and
\* handled as urgent: the room mention is applied when no 'ops-urgent'
\* nickname is configured.
C14_QueryPriorityName ==
    (/\ Poked
     /\ h_req.path = PathOps
     /\ h_req.query = Some(QueryUrgent)
     /\ h_req.headers = HeaderMap(<<>>)
     /\ h_req.body = Body(<<>>, None)) =>
        /\ Unwrap(h_poke).topic = <<"o","p","s">>
        /\ Unwrap(h_poke).message = <<"d","i","s","k"," ","f","u","l","l">>
        /\ Unwrap(h_poke).priority = Some(5)
        /\ ~HasNick(NickOpsUrgent) => p_mention


\* the request was read without error
Normalized == IsSome(h_poke)
\* the text t percent-decoded, or t itself when the decoded bytes are no
\* UTF-8
PercentDecoded(t) ==
    IF IsSome(from_utf8(PercentBytes(t))) THEN Unwrap(from_utf8(PercentBytes(t)))
    ELSE t
\* the JSON text of the body gives every field of PokeRequest at most once:
\* an object that names none of them twice, or an array of five elements
\* (topic, title, message, priority, tags in this order)
GivesFields(json) ==
    \/ /\ json.t = "object"
       /\ \A i, j \in 1..Len(json.a) :
             (i # j /\ json.a[i].name = json.a[j].name) =>
                json.a[i].name \notin {"topic", "title", "message", "priority", "tags"}
    \/ json.t = "array" /\ Len(json.a) = 5
\* the value the JSON text gives the k-th field named f; null when the
\* object leaves it out
Given(json, k, f) ==
    IF json.t = "array" THEN json.a[k]
    ELSE IF \E i \in 1..Len(json.a) : json.a[i].name = f
         THEN (CHOOSE m \in {json.a[i] : i \in 1..Len(json.a)} : m.name = f).value
         ELSE JNull
\* the body is a JSON PokeRequest: it gives strings for `topic` and
\* `message`, and for the others null or nothing, or a string `title`, a
\* `priority` in 0..255 and an array of strings `tags`
IsPokeJson(json) ==
    /\ GivesFields(json)
    /\ Given(json, 1, "topic").t = "string"
    /\ Given(json, 3, "message").t = "string"
    /\ Given(json, 2, "title").t \in {"string", "null"}
    /\ \/ Given(json, 4, "priority").t = "null"
       \/ /\ Given(json, 4, "priority").t = "number"
          /\ Given(json, 4, "priority").n \in 0..255
    /\ \/ Given(json, 5, "tags").t = "null"
       \/ /\ Given(json, 5, "tags").t = "array"
          /\ \A i \in 1..Len(Given(json, 5, "tags").a) :
                Given(json, 5, "tags").a[i].t = "string"
JsonTaken == IsSome(h_req.body.json) /\ IsPokeJson(Unwrap(h_req.body.json))
\* the fields of the JSON PokeRequest of the body
JsonTopic == Given(Unwrap(h_req.body.json), 1, "topic")
JsonPriority == Given(Unwrap(h_req.body.json), 4, "priority")
\* the `priority` query parameter, when it is a number of 0..255
QueryNumber ==
    LET v == query_get(h_req.query, <<"p","r","i","o","r","i","t","y">>)
    IN  IF IsSome(v) THEN parse_u8(Unwrap(v)) ELSE None
\* the priority header that is read: the first present of x-priority,
\* priority, prio, p
PriorityHeader == FirstHeader(h_req.headers, <<"x-priority", "priority", "prio", "p">>)
\* the priority is taken from a header
HeaderDecides ==
    Normalized /\ ~JsonTaken /\ QueryNumber = None /\ IsSome(PriorityHeader)
\* the characters of visible ASCII, and the tab
VisibleAscii == {AsciiVisible[i] : i \in 1..Len(AsciiVisible)} \cup {"\t"}
\* the integer the claim gives a header value that is no number
NameValue(v) ==
    LET name == to_lowercase(v)
    IN  CASE name = <<"m","i","n">> -> 1
          [] name = <<"l","o","w">> -> 2
          [] name = <<"d","e","f","a","u","l","t">> -> 3
          [] name = <<"h","i","g","h">> -> 4
          [] name \in {<<"u","r","g","e","n","t">>, <<"m","a","x">>} -> 5
          [] OTHER -> 3

\* C15 as claimed: for a priority header whose value is not a number, min,
\* low, default, high, urgent, max in any letter case map to 1, 2, 3, 4, 5,
\* 5 and every other value maps to 3.
C15_HeaderNames ==
    (HeaderDecides /\ parse_u8(Unwrap(PriorityHeader)) = None) =>
        Unwrap(h_poke).priority = Some(NameValue(Unwrap(PriorityHeader)))

\* C15 amended: for a priority header that decides the priority (no JSON
\* PokeRequest body, no numeric `priority` query parameter) and whose value
\* is text but not a number, the six names in any letter case map to 1, 2,
\* 3, 4, 5, 5 and every other text maps to 3; a value holding bytes that are
\* not visible ASCII gives no priority at all.
C15_HeaderNamesOfText ==
    (HeaderDecides /\ parse_u8(Unwrap(PriorityHeader)) = None) =>
        LET v == Unwrap(PriorityHeader)
        IN  Unwrap(h_poke).priority =
                IF \E i \in 1..Len(v) : v[i] \notin VisibleAscii THEN None
                ELSE Some(NameValue(v))

\* C15 witness: the header `priority: URGENT` gave priority 5 and the poke
\* was routed as urgent.
C15_Witness ==
    /\ Poked
    /\ HeaderDecides /\ PriorityHeader = Some(<<"U","R","G","E","N","T">>)
    /\ Unwrap(h_poke).priority = Some(5)
    /\ p_mention \/ HasNick(Topic \o <<"-","u","r","g","e","n","t">>)

\* C16 as claimed: the priority of every normalized request is absent or an
\* integer in 1..5, numeric inputs outside that range being clamped into it.
C16_PriorityClamped ==
    Normalized =>
        \/ Unwrap(h_poke).priority = None
        \/ Unwrap(h_poke).priority[1] \in 1..5

\* C16 amended: the priority of every normalized request is absent or an
\* integer in 0..255, and a numeric input in that range is kept as it is
\* (0, 6 and 200 stay 0, 6 and 200), whether it comes from the JSON body,
\* from the query parameter or from a header.
C16_PriorityKept ==
    Normalized =>
        /\ \/ Unwrap(h_poke).priority = None
           \/ Unwrap(h_poke).priority[1] \in 0..255
        /\ (JsonTaken /\ JsonPriority.t = "number") =>
              Unwrap(h_poke).priority = Some(JsonPriority.n)
        /\ (~JsonTaken /\ IsSome(QueryNumber)) =>
              Unwrap(h_poke).priority = QueryNumber
        /\ (HeaderDecides /\ IsSome(parse_u8(Unwrap(PriorityHeader)))) =>
              Unwrap(h_poke).priority = parse_u8(Unwrap(PriorityHeader))

\* C16 witness: a poke normalized with priority 200, handled as urgent.
C16_Witness ==
    /\ Poked
    /\ Unwrap(h_poke).priority = Some(200)
    /\ Urgent
    /\ p_mention \/ HasNick(Topic \o <<"-","u","r","g","e","n","t">>)

\* the URL path without its leading slashes, percent-decoded
PathTopic == PercentDecoded(trim_slashes(h_req.path))

\* C17 as claimed: the topic is always the percent-decoded URL path, for
\* every request encoding; with no nickname table it is the room poked.
C17_TopicFromPath ==
    /\ Normalized => Topic = PathTopic
    /\ (Poked /\ h_rooms = None) => p_name = PathTopic

\* C17 amended: the topic is the percent-decoded URL path (the path as it
\* stands when it does not decode) unless the body is a JSON PokeRequest;
\* then it is the `topic` field of the JSON body, percent-decoded the same
\* way, and the URL path is not used.  A `topic` header is never read.
C17_TopicFromPathOrJson ==
    LET expected == IF JsonTaken
                    THEN PercentDecoded(JsonTopic.s)
                    ELSE PathTopic
    IN  /\ Normalized => Topic = expected
        /\ (Poked /\ h_rooms = None) => p_name = expected

\* C17 witness: POST /ops with the JSON topic "!a:x.y" was sent to the room
\* !a:x.y.
C17_Witness ==
    /\ Poked
    /\ h_req.path = PathOps
    /\ JsonTaken /\ JsonTopic.s = RoomA
    /\ p_name = RoomA
    /\ IsSome(sent) /\ Unwrap(sent).room = RoomA

\* the value of an optional field: None when the JSON text gives null or
\* leaves it out
JsonOption(given, value) == IF given.t # "null" THEN Some(value) ELSE None
\* the fields of the PokeRequest are the values of the JSON text
FromJson(json) ==
    /\ Unwrap(h_poke).message = Given(json, 3, "message").s
    /\ Unwrap(h_poke).title =
          JsonOption(Given(json, 2, "title"), Given(json, 2, "title").s)
    /\ Unwrap(h_poke).priority =
          JsonOption(Given(json, 4, "priority"), Given(json, 4, "priority").n)
    /\ Unwrap(h_poke).tags =
          JsonOption(Given(json, 5, "tags"),
                     [i \in 1..Len(Given(json, 5, "tags").a) |->
                         Given(json, 5, "tags").a[i].s])

\* C18 as claimed: every body that is a JSON object with at least `message`
\* is taken through the JSON path: title, message, priority and tags are the
\* JSON values.
C18_JsonWithMessage ==
    (/\ Normalized
     /\ IsSome(h_req.body.json)
     /\ Unwrap(h_req.body.json).t = "object"
     /\ \E i \in 1..Len(Unwrap(h_req.body.json).a) :
           Unwrap(h_req.body.json).a[i].name = "message") =>
        FromJson(Unwrap(h_req.body.json))

\* C18 amended: a body is taken through the JSON path exactly when it is a
\* JSON PokeRequest: a JSON object that names none of topic, title,
\* message, priority, tags twice, or a JSON array of five elements standing
\* for these fields in this order, which gives strings for `topic` and
\* `message` and, for the others, null or nothing, or else a string
\* `title`, a `priority` in 0..255 and an array of strings `tags`.  Then
\* title, message, priority and tags are the JSON values and the query and
\* the headers are not consulted.  Any other body is read like plain text:
\* the message is the `message` query parameter, else the message header
\* when its value is visible ASCII, else the whole body text.
C18_PokeJson ==
    Normalized =>
        IF JsonTaken THEN FromJson(Unwrap(h_req.body.json))
        ELSE Unwrap(h_poke).message =
                IF IsSome(query_get(h_req.query, <<"m","e","s","s","a","g","e">>))
                THEN Unwrap(query_get(h_req.query, <<"m","e","s","s","a","g","e">>))
                ELSE IF IsSome(FirstHeader(h_req.headers, <<"x-message", "message", "m">>))
                        /\ IsSome(to_str(Unwrap(FirstHeader(h_req.headers, <<"x-message", "message", "m">>))))
                     THEN Unwrap(FirstHeader(h_req.headers, <<"x-message", "message", "m">>))
                     ELSE BodyText

\* C18 witness: the full JSON body, sent with the query
\* message=disk+full&priority=urgent, was delivered with the JSON title,
\* message and tag.
C18_Witness ==
    /\ Poked
    /\ h_req.body.json = Some(JsonFull)
    /\ h_req.query = Some(QueryUrgent)
    /\ p_message = <<EmojiWarning, VariationSelector, " ">> \o <<"*","*","T","*","*">> \o <<"\n", "\n", "b">>
    /\ IsSome(sent)


---------------------------------------------------------------------------
(* Claims on the fields built from the query, the headers and the body     *)

\* the first of the two options that holds a value
OrElse(first, second) == IF IsSome(first) THEN first ELSE second
\* the integer of a priority value: the number, or the value of the name
PriorityOf(v) == IF IsSome(parse_u8(v)) THEN Unwrap(parse_u8(v)) ELSE NameValue(v)
\* the priority a source gives, when the source holds a value
PriorityFrom(source) ==
    IF IsSome(source) THEN Some(PriorityOf(Unwrap(source))) ELSE None

\* C26: when the body is not taken as JSON, title, message, priority and
\* tags are each derived independently, the first source that holds a value
\* winning: the query parameter, then the named headers in the listed
\* order, then, for message only, the raw body text; a value present in the
\* query parameter is never overridden by a header or the body.
C26_FirstSourceWins ==
    (Normalized /\ ~JsonTaken) =>
        LET q == h_req.query
            h == h_req.headers
            poke == Unwrap(h_poke)
            tagtext == OrElse(query_get(q, <<"t","a","g","s">>),
                              HeaderText(h, <<"x-tags", "tags", "tag", "ta">>))
        IN  /\ poke.title = OrElse(query_get(q, <<"t","i","t","l","e">>),
                                   HeaderText(h, <<"x-title", "title", "ti", "t">>))
            /\ poke.message =
                  Unwrap(OrElse(OrElse(query_get(q, <<"m","e","s","s","a","g","e">>),
                                       HeaderText(h, <<"x-message", "message", "m">>)),
                                Some(BodyText)))
            /\ poke.priority =
                  OrElse(PriorityFrom(query_get(q, <<"p","r","i","o","r","i","t","y">>)),
                         PriorityFrom(HeaderText(h, <<"x-priority", "priority", "prio", "p">>)))
            /\ poke.tags = IF IsSome(tagtext) THEN Some(Split(Unwrap(tagtext), ",")) ELSE None

\* the glyphs of the tags that resolve as emoji shortcodes, in tag order
Glyphs(shortcodes) ==
    LET resolved == SelectSeq(shortcodes, LAMBDA t : IsSome(get_by_shortcode(t)))
    IN  Concat([i \in 1..Len(resolved) |-> Unwrap(get_by_shortcode(resolved[i]))])

\* C27: message decoration.  With a title the message becomes '**title**',
\* two newlines and the message; then the glyphs of the tags that resolve,
\* in tag order, are prepended followed by one space; tags that do not
\* resolve are dropped, and when no tag resolves there is no emoji prefix
\* and no extra space.
C27_Decoration ==
    Poked =>
        LET poke == Unwrap(h_poke)
            titled == IF IsSome(poke.title)
                      THEN <<"*","*">> \o Unwrap(poke.title) \o <<"*","*">> \o <<"\n", "\n">>
                           \o poke.message
                      ELSE poke.message
            glyphs == IF IsSome(poke.tags) THEN Glyphs(Unwrap(poke.tags)) ELSE <<>>
        IN  p_message = IF glyphs = <<>> THEN titled
                        ELSE glyphs \o <<" ">> \o titled

\* C27 witness: title T and tags skull,nope,warning on the body 'a b': the
\* two glyphs in tag order, a space, the title line and the message.
C27_Witness ==
    /\ Poked
    /\ Unwrap(h_poke).title = Some(<<"T">>)
    /\ Unwrap(h_poke).tags = Some(<<<<"s","k","u","l","l">>, <<"n","o","p","e">>, <<"w","a","r","n","i","n","g">>>>)
    /\ p_message = <<EmojiSkull, EmojiWarning, VariationSelector, " ">> \o <<"*","*","T","*","*">> \o <<"\n", "\n">> \o <<"a"," ","b">>

---------------------------------------------------------------------------
(* Claims on the urgency of a poke                                         *)

PokePriority == Unwrap(h_poke).priority
AboveThree == IsSome(PokePriority) /\ Unwrap(PokePriority) > 3
UrgentNick == Topic \o <<"-","u","r","g","e","n","t">>

\* C39: a poke is urgent iff its priority is present and above 3: priority
\* 4 takes the urgent route (the "-urgent" room when the table has one,
\* else the room-wide mention) like priority 5, and with the priority
\* absent or at most 3 the room-wide mention is never set.
C39_UrgentAboveThree ==
    Poked =>
        /\ p_mention <=> (AboveThree /\ ~HasNick(UrgentNick))
        /\ (AboveThree /\ HasNick(UrgentNick)) => p_name = Unwrap(h_rooms)[UrgentNick]
        /\ ~AboveThree => p_name = PlainTarget(Topic)
        /\ IsSome(sent) => Unwrap(sent).content.mention_room = p_mention

\* C39 witness: a poke of priority 4 was sent with the room-wide mention
C39_Witness ==
    /\ Poked
    /\ PokePriority = Some(4)
    /\ p_mention
    /\ IsSome(sent)
    /\ Unwrap(sent).content.mention_room

\* a poke of priority 4 went to the "-urgent" room of the table
C39_HighToUrgentRoom ==
    /\ Poked
    /\ PokePriority = Some(4)
    /\ HasNick(UrgentNick)
    /\ p_name = ExampleRoom
    /\ ~p_mention

---------------------------------------------------------------------------
(* SpecChat: one chat command, `set` or `poke`, handled in the room it was *)
(* sent in, step by step.  Tag reads, tag writes and sends can fail.       *)

ChatCommands ==
    {<<"!","p","o","k","e","m"," ","s","e","t"," ","b","l","o","c","k"," ","o","n">>, <<"!","p","o","k","e","m"," ","s","e","t"," ","b","l","o","c","k"," ","O","F","F">>, <<"!","p","o","k","e","m"," ","s","e","t"," ","b","l","o","c","k">>,
     <<"!","p","o","k","e","m"," ","s","e","t"," ","b","l","o","c","k"," ","m","a","y","b","e">>, <<"!","p","o","k","e","m"," ","s","e","t"," ","a","u","t","h"," ","b">>, <<"!","p","o","k","e","m"," ","s","e","t"," ","a","u","t","h"," ","o","f","f">>,
     <<"!","p","o","k","e","m"," ","s","e","t"," ","a","u","t","h"," ","o","n">>, <<"!","p","o","k","e","m"," ","s","e","t"," ","a","u","t","h","e","n","t","i","c","a","t","i","o","n"," ","b">>,
     <<"!","p","o","k","e","m"," ","s","e","t"," ","p","a","s","s","w","o","r","d"," "," ","b"," ","c">>, <<"!","p","o","k","e","m"," ","s","e","t"," ","p","a","s","s"," ","b">>, <<"!","p","o","k","e","m"," ","s","e","t"," ","a","u","t","h">>,
     <<"!","p","o","k","e","m"," ","s","e","t"," ","c","o","l","o","u","r"," ","r","e","d">>, <<"!","p","o","k","e","m"," ","s","e","t">>,
     <<"!","p","o","k","e","m"," ","s","e","t"," ","a","u","t","h"," ","d","e","v",".","p","o","k","e","m",".","a","u","t","h",".","b">>,
     <<"!","p","o","k","e","m"," ","p","o","k","e"," ","!","a",":","x",".","y"," ","a"," ","b">>, <<"!","p","o","k","e","m"," ","p","o","k","e"," ","#","a",":","x",".","y"," ","b">>, <<"!","p","o","k","e","m"," ","p","o","k","e"," ","!","b",":","x",".","y"," ","b">>,
     <<"!","p","o","k","e","m"," ","p","o","k","e"," ","!","J","Y","r","j","s","P","j","E","r","p","F","S","D","d","p","w","p","I",":","j","a","c","k","s","o","n",".","d","e","v"," ","b">>, <<"!","p","o","k","e","m"," ","p","o","k","e">>}

ChatTagSets ==
    {{}, {BlockTag}, {AuthPrefix \o <<"a">>}, {PassPrefix \o <<"a">>},
     {BlockTag, AuthPrefix \o <<"a">>, OtherTag}}

\* the tasks at rest but for the handler of the message msg, which starts in
\* task w
TaskHandles(w, msg) ==
    /\ w_pc = [v \in Tasks |-> IF v = w THEN "cmd" ELSE "off"]
    /\ w_cmd = [v \in Tasks |-> IF v = w THEN msg ELSE <<>>]
    /\ w_resp = [v \in Tasks |-> <<>>]
    /\ w_seen = [v \in Tasks |-> None]
    /\ w_in = [v \in Tasks |-> "set"]
    /\ w_config = [v \in Tasks |-> DefaultConfig]
    /\ w_todo = [v \in Tasks |-> <<>>]
    /\ w_calls = [v \in Tasks |-> <<>>]
    /\ w_before = [v \in Tasks |-> {}]
    /\ w_overlap = FALSE
    /\ read_err = FALSE

ChatInit ==
    /\ AuthIdle
    /\ HttpIdle
    /\ DeliveryIdle
    /\ room \in RoomIds
    /\ direct = 0
    /\ op = "none"
    /\ arg = DefaultConfig
    /\ ret = DefaultConfig
    /\ before = {}
    /\ \E ta \in ChatTagSets, te \in ChatTagSets :
          tags = [r \in RoomIds |-> IF r = RoomA THEN ta ELSE te]
    /\ \E st \in {"Joined", "Invited"} :
          roomState = [r \in RoomIds |-> IF r = RoomA /\ room # RoomA THEN st ELSE "Joined"]
    /\ members = [r \in RoomIds |-> 1]
    /\ reply = <<>>
    /\ \E msg \in ChatCommands : TaskHandles(ChatTask, msg)

ChatNext ==
    \/ SetCommand(ChatTask)
    \/ GetRead(ChatTask)
    \/ WriterBlock(ChatTask)
    \/ WriterRead(ChatTask)
    \/ WriterCall(ChatTask)
    \/ SetMatch(ChatTask)
    \/ SetReply(ChatTask)
    \/ PokeCommand(ChatTask)
    \/ PingStep
    \/ PokeReturn(ChatTask)
    \/ PokeReport(ChatTask)
    \/ PokePanics(ChatTask)

SpecChat == ChatInit /\ [][ChatNext]_vars

---------------------------------------------------------------------------
(* Claims on the chat commands                                             *)

\* the handler of task w has ended
HandlerEnded(w) == w_pc[w] \in {"returned", "errored", "panicked"}
\* the `set` command was handled
SetDone == HandlerEnded(ChatTask) /\ IsSet(w_cmd[ChatTask])
\* a tag call of the command's set_room_config failed
SetWriteFailed == SetDone /\ op \in {"set panicked", "get panicked"}
\* the tags after the calls took effect in order on ts
RECURSIVE After(_, _)
After(ts, calls) ==
    IF calls = <<>> THEN ts
    ELSE After(IF Head(calls).call = "set_tag" THEN ts \cup {Head(calls).tag}
               ELSE ts \ {Head(calls).tag},
               Tail(calls))

\* C21: a failing tag add or remove inside set_room_config is never
\* swallowed: set_room_config stops at the first failing operation, performs
\* none of its later tag operations and does not return normally, so the
\* `set` command sends no success reply after a failed write.
C21_FailedWriteStops ==
    SetDone =>
        /\ w_pc[ChatTask] \in {"returned", "panicked"}
        /\ tags[room] = After(before, w_calls[ChatTask])
        /\ SetWriteFailed =>
              /\ w_pc[ChatTask] = "panicked"
              /\ reply = <<>>
              /\ w_calls[ChatTask] = <<>> \/ w_todo[ChatTask] # <<>>
        /\ w_pc[ChatTask] = "returned" =>
              /\ op = "set"
              /\ reply = <<w_resp[ChatTask]>>
              /\ w_todo[ChatTask] = <<>>
              /\ w_calls[ChatTask] # <<>>
              /\ Head(w_calls[ChatTask]) = BlockCall(arg)

\* C21 witness: `set auth b` on a room holding dev.pokem.auth.a whose
\* set_tag failed after the remove_tag took effect: no auth tag is left and
\* no reply was sent.
C21_Witness ==
    /\ SetDone
    /\ op = "set panicked"
    /\ arg.auth = Some(<<"b">>)
    /\ (AuthPrefix \o <<"a">>) \in before
    /\ w_todo[ChatTask] = <<SetTag(AuthPrefix \o <<"b">>)>>
    /\ \A t \in tags[room] : ~BeginsWith(t, AuthPrefix)
    /\ reply = <<>>

\* the key and the value of the `set` command
SetKey == nth_or_default(command_words(w_cmd[ChatTask]), 1)
SetValue == nth_or_default(command_words(w_cmd[ChatTask]), 2)
\* what get_room_config returns on the room now
GetNow == get_room_config(tags[room], TRUE, TRUE).config

\* C22: the `set` command changes only the addressed field: `set block
\* on|off` sets block and leaves the token returned by get unchanged; `set
\* auth <value>` (also authentication, password, pass) sets the token to the
\* literal value and leaves block unchanged; `set auth off` clears the
\* token; `set auth on`, an empty value, an invalid block value and an
\* unrecognized first token leave both unchanged, the last returning a usage
\* string that shows the current block state and token.
C22_SetFrame ==
    (SetDone /\ w_pc[ChatTask] = "returned") =>
        LET v == to_lowercase(SetValue)
        IN  CASE SetKey = <<"b","l","o","c","k">> /\ v = <<"o","n">> ->
                    GetNow.block /\ GetNow.auth = ret.auth
              [] SetKey = <<"b","l","o","c","k">> /\ v = <<"o","f","f">> ->
                    ~GetNow.block /\ GetNow.auth = ret.auth
              [] SetKey \in {<<"a","u","t","h">>, <<"a","u","t","h","e","n","t","i","c","a","t","i","o","n">>, <<"p","a","s","s","w","o","r","d">>, <<"p","a","s","s">>}
                    /\ v = <<"o","f","f">> ->
                    GetNow.auth = None /\ GetNow.block = ret.block
              [] SetKey \in {<<"a","u","t","h">>, <<"a","u","t","h","e","n","t","i","c","a","t","i","o","n">>, <<"p","a","s","s","w","o","r","d">>, <<"p","a","s","s">>}
                    /\ v \notin {<<>>, <<"o","n">>, <<"o","f","f">>} ->
                    GetNow.auth = Some(SetValue) /\ GetNow.block = ret.block
              [] SetKey \notin {<<"b","l","o","c","k">>, <<"a","u","t","h">>, <<"a","u","t","h","e","n","t","i","c","a","t","i","o","n">>, <<"p","a","s","s","w","o","r","d">>, <<"p","a","s","s">>} ->
                    /\ GetNow = ret
                    /\ reply = <<Text("usage", [block |-> ret.block, auth |-> ret.auth])>>
              [] OTHER -> GetNow = ret

\* the `poke` command was handled
PokeDone == HandlerEnded(ChatTask) /\ IsPoke(w_cmd[ChatTask])
\* the delivery of the command failed
PokeFailed == PokeDone /\ p_pc = "Returned" /\ p_result # "Ok"

\* C23: an auth-rejected delivery started by the `poke` command is not
\* echoed with detail into the originating room: the reply for a target
\* with a token configured is a reply that a target failing for another
\* reason (room not found, join timeout, send error) gets as well.
C23_RejectionNotEchoed ==
    (PokeDone /\ p_result = ErrAuthRejected) =>
        \/ reply = <<>>
        \/ \E e \in {ErrRoomNotFound, ErrJoinTimeout, ErrSend} :
              reply = <<Text("failed", e)>>

\* the originating room passes the send-allowed check: it is the example
\* room or carries no block tag
OriginPasses == room = ExampleRoom \/ BlockTag \notin tags[room]
\* can_message_room returned true on the originating room: it is the example
\* room or the read handed over no block tag
OriginPassed ==
    room = ExampleRoom \/ BlockTag \notin Unwrap(w_seen[ChatTask])

\* C24 as claimed: when a delivery started by the `poke` command fails, the
\* error is reported into the originating room if and only if that room
\* passes the send-allowed check; when the originating room is blocked
\* nothing is sent to it; in both cases the handler ends with an error.
C24_FailureReportedOrSilent ==
    PokeFailed =>
        /\ w_pc[ChatTask] = "errored"
        /\ reply # <<>> <=> OriginPasses
        /\ (room # ExampleRoom /\ BlockTag \in tags[room]) => reply = <<>>

\* C24 amended: when a delivery started by the `poke` command fails, the
\* handler sends the error into the originating room if and only if
\* can_message_room returned true for it, which it does for the example
\* room, for a room whose tags read holds no block tag and when the read
\* fails; the handler then ends with an error, but for a report whose send
\* fails: that panics the handler and nothing is reported.
C24_FailureReported ==
    PokeFailed =>
        /\ IsSome(w_seen[ChatTask])
        /\ w_pc[ChatTask] \in {"errored", "panicked"}
        /\ w_pc[ChatTask] = "errored" =>
              /\ reply # <<>> <=> OriginPassed
              /\ OriginPassed => reply = <<Text("failed", p_result)>>
        /\ w_pc[ChatTask] = "panicked" => OriginPassed /\ reply = <<>>

\* C24 witness: a poke of an unknown room from a blocked room: the command
\* ended with an error and nothing was sent into the originating room.
C24_Witness ==
    /\ PokeFailed
    /\ p_result = ErrRoomNotFound
    /\ room = RoomA /\ BlockTag \in tags[RoomA]
    /\ w_seen[ChatTask] = Some(tags[RoomA])
    /\ reply = <<>>
    /\ w_pc[ChatTask] = "errored"

---------------------------------------------------------------------------
(* SpecSetPing: set_room_config changes the token of room !a:x.y from a    *)
(* to b, step by step in one task, while one delivery by ping_room to     *)
(* that room runs.                                                        *)

SetPingHeaders ==
    {NoHeaders, Headers(Some(RaceTokenA), None, None),
     Headers(None, Some(RaceTokenB), None), Headers(Some(<<"c">>), None, None)}
SetPingMessages == {<<"c">>, <<"a"," ","c">>, <<"b"," ","c">>}

SetPingInit ==
    /\ StoreIdle
    /\ AuthIdle
    /\ HttpIdle
    /\ \E blocked \in BOOLEAN :
          tags = [r \in RoomIds |->
                    IF r = RoomA
                    THEN {AuthPrefix \o RaceTokenA} \cup (IF blocked THEN {BlockTag} ELSE {})
                    ELSE {}]
    /\ roomState = [r \in RoomIds |-> "Joined"]
    /\ members = [r \in RoomIds |-> 1]
    /\ reply = <<>>
    /\ p_pc = "Resolving"
    /\ p_name = RoomA
    /\ p_headers \in SetPingHeaders
    /\ p_message \in SetPingMessages
    /\ p_mention = FALSE
    /\ p_room = None
    /\ p_delay = 0
    /\ p_slept = 0
    /\ p_msg = <<>>
    /\ p_seen = None
    /\ p_allowed = FALSE
    /\ p_result = "none"
    /\ sent = None
    /\ w_pc = [w \in Tasks |-> IF w = ChatTask THEN "start" ELSE "off"]
    /\ \E b \in BOOLEAN :
          w_config = [w \in Tasks |->
                        IF w = ChatTask THEN RoomConfig(b, Some(RaceTokenB))
                        ELSE DefaultConfig]
    /\ w_cmd = [w \in Tasks |-> <<>>]
    /\ w_resp = [w \in Tasks |-> <<>>]
    /\ w_seen = [w \in Tasks |-> None]
    /\ w_in = [w \in Tasks |-> "set"]
    /\ w_todo = [w \in Tasks |-> <<>>]
    /\ w_calls = [w \in Tasks |-> <<>>]
    /\ w_before = [w \in Tasks |-> tags[RoomA]]
    /\ w_overlap = FALSE
    /\ read_err = FALSE

SetPingNext ==
    \/ WriterBlock(ChatTask)
    \/ WriterRead(ChatTask)
    \/ WriterCall(ChatTask)
    \/ PingStep

SpecSetPing == SetPingInit /\ [][SetPingNext]_vars

---------------------------------------------------------------------------
(* Claims on a delivery during a change of the token                       *)

\* the request carries the token tok: in the header that is read, or as
\* the beginning of the message
Carries(tok) == HeaderToken(p_headers) = tok \/ BeginsWith(p_message, tok)

\* C34: while set_room_config changes the token of a room from A to B, a
\* delivery whose request carries neither A nor B is never submitted to
\* the room.
C34_NoUnauthDelivery ==
    IsSome(sent) => Carries(RaceTokenA) \/ Carries(RaceTokenB)

\* the room holds no auth tag between remove_tag(dev.pokem.auth.a) and
\* set_tag(dev.pokem.auth.b), and the config read then has no token
C34_Window ==
    /\ w_pc[ChatTask] = "calls"
    /\ AuthTagsOf(tags[RoomA]) = {}
    /\ p_pc = "Sending"
    /\ ~Carries(RaceTokenA)
    /\ ~Carries(RaceTokenB)

---------------------------------------------------------------------------
(* SpecSetCmds: two `set` commands in one room, each handled by a task of  *)
(* its own: set_command reads the room's config, changes the field the     *)
(* command names, and writes the whole config back with set_room_config;   *)
(* then it sends its reply.                                                *)

CmdSetBlockOn == <<"!","p","o","k","e","m"," ","s","e","t"," ","b","l","o","c","k"," ","o","n">>
CmdSetBlockOff == <<"!","p","o","k","e","m"," ","s","e","t"," ","b","l","o","c","k"," ","o","f","f">>
CmdSetAuthB == <<"!","p","o","k","e","m"," ","s","e","t"," ","a","u","t","h"," ","b">>
CmdSetAuthOff == <<"!","p","o","k","e","m"," ","s","e","t"," ","a","u","t","h"," ","o","f","f">>

SetCmdsInit ==
    /\ AuthIdle
    /\ PingIdle
    /\ HttpIdle
    /\ StoreIdle
    /\ \E ts \in SUBSET {BlockTag, AuthPrefix \o RaceTokenA} :
          tags = [r \in RoomIds |-> IF r = room THEN ts ELSE {}]
    /\ w_pc = [w \in Tasks |-> "cmd"]
    /\ w_cmd \in [Tasks -> {CmdSetBlockOn, CmdSetBlockOff, CmdSetAuthB, CmdSetAuthOff}]
    /\ w_resp = [w \in Tasks |-> <<>>]
    /\ w_seen = [w \in Tasks |-> None]
    /\ w_in = [w \in Tasks |-> "set"]
    /\ w_config = [w \in Tasks |-> DefaultConfig]
    /\ w_todo = [w \in Tasks |-> <<>>]
    /\ w_calls = [w \in Tasks |-> <<>>]
    /\ w_before = [w \in Tasks |-> {}]
    /\ w_overlap = FALSE
    /\ read_err = FALSE

SetCmdsNext ==
    \/ \E w \in Tasks : SetCommand(w)
    \/ \E w \in Tasks : GetRead(w)
    \/ \E w \in Tasks : WriterBlock(w)
    \/ \E w \in Tasks : WriterRead(w)
    \/ \E w \in Tasks : WriterCall(w)
    \/ \E w \in Tasks : SetMatch(w)
    \/ \E w \in Tasks : SetReply(w)

SpecSetCmds == SetCmdsInit /\ [][SetCmdsNext]_vars

---------------------------------------------------------------------------
(* Claims on concurrent `set` commands                                     *)

BothReplied == \A w \in Tasks : w_pc[w] = "returned"

\* C35: a `set block on|off` command and a `set auth <token>` command on
\* one room, run at the same time or one after the other: when both have
\* completed the room has the block state of the one and the token of the
\* other.
C35_NoLostUpdate ==
    \A v \in Tasks, w \in Tasks :
        /\ BothReplied
        /\ w_cmd[v] \in {CmdSetBlockOn, CmdSetBlockOff}
        /\ w_cmd[w] = CmdSetAuthB
        => /\ BlockTag \in tags[room] <=> w_cmd[v] = CmdSetBlockOn
           /\ AuthTagsOf(tags[room]) = {AuthPrefix \o RaceTokenB}

\* the token set by `set auth b` is gone after `set block on` wrote back
\* the config it had read before
C35_TokenLost ==
    /\ BothReplied
    /\ w_cmd[ChatTask] = CmdSetBlockOn
    /\ w_cmd[PingTask] = CmdSetAuthB
    /\ ~read_err
    /\ tags[room] = {BlockTag}
    /\ Len(reply) = 2

---------------------------------------------------------------------------
(* SpecBlockSeq: the commands info, block, unblock, `set block on` and     *)
(* `set block off` handled one at a time in one room, in any order.        *)

BlockSeqInit ==
    /\ AuthIdle
    /\ HttpIdle
    /\ PingIdle
    /\ TaskIdle
    /\ room \in RoomIds
    /\ direct = 0
    /\ op = "none"
    /\ arg = DefaultConfig
    /\ ret = DefaultConfig
    /\ before = {}
    /\ \E ts \in ChatTagSets : tags = [r \in RoomIds |-> IF r = room THEN ts ELSE {}]

\* the bot framework hands the next command of the room to its handler once
\* the handler before it has ended
BlockSeqCommand ==
    \E msg \in {InfoMsg, BlockMsg, UnblockMsg, CmdSetBlockOn, CmdSetBlockOff} :
        Dispatch(ChatTask, room, msg)

BlockSeqNext ==
    \/ BlockSeqCommand
    \/ InfoCommand(ChatTask)
    \/ HelpCheck(ChatTask)
    \/ HelpAlias(ChatTask)
    \/ HelpId(ChatTask)
    \/ HelpToken(ChatTask)
    \/ BlockCommand(ChatTask)
    \/ BlockWrite(ChatTask)
    \/ UnblockCommand(ChatTask)
    \/ Reply(ChatTask)
    \/ SetCommand(ChatTask)
    \/ GetRead(ChatTask)
    \/ WriterBlock(ChatTask)
    \/ WriterRead(ChatTask)
    \/ WriterCall(ChatTask)
    \/ SetMatch(ChatTask)
    \/ SetReply(ChatTask)

SpecBlockSeq == BlockSeqInit /\ [][BlockSeqNext]_vars

---------------------------------------------------------------------------
(* Claims on sequences of block commands                                   *)

Blocked(ts) == BlockTag \in ts
ReportsBlock(ts) == get_room_config(ts, TRUE, TRUE).config.block

\* the last command of the sequence has returned, and every tag read and
\* tag write so far succeeded
CommandRan(msg) ==
    /\ w_cmd[ChatTask] = msg
    /\ w_pc[ChatTask] = "returned"
    /\ ~read_err
    /\ w_resp[ChatTask] \notin {Text("block failed", <<>>), Text("unblock failed", <<>>)}

\* what each of the four commands leaves, whatever the room held before
BlockTagFollowsCommand ==
    /\ CommandRan(BlockMsg) => Blocked(tags[room])
    /\ CommandRan(CmdSetBlockOn) => Blocked(tags[room])
    /\ CommandRan(UnblockMsg) => ~Blocked(tags[room])
    /\ CommandRan(CmdSetBlockOff) => ~Blocked(tags[room])
    /\ ReportsBlock(tags[room]) <=> Blocked(tags[room])

\* the block command found the room blocked already
BlockOnBlocked ==
    /\ w_cmd[ChatTask] = BlockMsg
    /\ ~read_err
    /\ IsSome(w_seen[ChatTask])
    /\ Blocked(Unwrap(w_seen[ChatTask]))

\* C37 as stated: after each of the commands the tag dev.pokem.block is
\* present iff the command was `block` or `set block on`, get_room_config
\* reports block accordingly, and `block` on an already blocked room
\* changes nothing and sends no reply.
C37_BlockSequence ==
    /\ [](BlockTagFollowsCommand)
    /\ [](BlockOnBlocked => reply = <<>>)
    /\ [][BlockOnBlocked => tags' = tags]_vars

\* C37 amended: as stated, with the sends succeeding as well, but `block` on
\* an already blocked room is silent only outside the example room; in the
\* example room it stores the tag again and sends its reply.
C37_BlockSequenceByRoom ==
    /\ [](BlockTagFollowsCommand)
    /\ [](BlockOnBlocked /\ room # ExampleRoom =>
            reply = <<>> /\ w_pc[ChatTask] = "returned")
    /\ [](BlockOnBlocked /\ room = ExampleRoom /\ CommandRan(BlockMsg) =>
            reply = <<Text("blocked", <<>>)>>)
    /\ [][BlockOnBlocked => tags' = tags]_vars

\* C37 witness: in !a:x.y `set block on` was answered and then `block` ran
\* on the blocked room: the tag is there, get_room_config reports it, no
\* reply was sent
C37_Witness ==
    /\ room = RoomA
    /\ op = "set"
    /\ arg.block
    /\ direct = 2
    /\ BlockOnBlocked
    /\ CommandRan(BlockMsg)
    /\ Blocked(tags[room])
    /\ ReportsBlock(tags[room])
    /\ reply = <<>>

===========================================================================
